---- MODULE Spec2Model ----
(***************************************************************************)
(* Flow reconciliation engine of the Asgardeo/Authsignal adapter (poll     *)
(* variant, src/src/app.ts) over the in-process flow store                 *)
(* (src/src/store/memory-flow-store.ts).                                   *)
(*                                                                         *)
(* One handler invocation per inbound POST /api/authenticate runs in a     *)
(* handler slot; handlers interleave at their await points, so every       *)
(* action below is one awaited I/O operation (a store call or a call of    *)
(* the external service) together with the synchronous code that follows   *)
(* it up to the next await.  The clock advances between any two steps.     *)
(***************************************************************************)
EXTENDS Integers, Sequences, FiniteSets, TLC

\* ------------------------------------------------------------- bounds ----
NumSlots == 2        \* handler invocations that can be in flight at once
MaxCalls == 3        \* authenticate calls started in one behaviour
MaxTicks == 3        \* clock steps in one behaviour
NumCallbacks == 2    \* callback invocations that can be in flight at once
MaxStoreCalls == 4   \* get and save calls made on the store by itself
TickMs == 30000      \* milliseconds the clock advances in one step
PollMs == 40000      \* the same where the platform polls at timed intervals
LiveCalls == 2       \* calls that arrive before the platform only polls

\* -------------------------------------------------- program constants ----
LOCK_TTL_MS == 30000
ttlSeconds == 60

FlowIds == {"f1"}
Slots == 1..NumSlots
CbSlots == 1..NumCallbacks
CbLast == 0

SUCCESS_STATES == {"ALLOW", "CHALLENGE_SUCCEEDED", "REVIEW_SUCCEEDED"}
FAILED_STATES == {"BLOCK", "CHALLENGE_FAILED", "REVIEW_FAILED"}
PENDING_STATES == {"CHALLENGE_REQUIRED", "REVIEW_REQUIRED"}

\* ------------------------------------------------------------ strings ----
\* State strings the external service is taken to answer with, in upper,
\* lower and mixed case, and one string outside every vocabulary.
StateStrings ==
  {"allow", "BLOCK", "CHALLENGE_REQUIRED", "CHALLENGE_SUCCEEDED",
   "challenge_failed", "SOMETHING_NEW"}

\* String.prototype.toUpperCase on the strings above.
toUpperCase(s) ==
  CASE s = "allow" -> "ALLOW"
    [] s = "challenge_failed" -> "CHALLENGE_FAILED"
    [] OTHER -> s

\* String.prototype.toLowerCase on the upper-case state strings.
toLowerCase(s) ==
  CASE s = "ALLOW" -> "allow"
    [] s = "BLOCK" -> "block"
    [] s = "REVIEW_FAILED" -> "review_failed"
    [] s = "CHALLENGE_FAILED" -> "challenge_failed"
    [] s = "CHALLENGE_REQUIRED" -> "challenge_required"
    [] s = "CHALLENGE_SUCCEEDED" -> "challenge_succeeded"
    [] s = "SOMETHING_NEW" -> "something_new"
    [] OTHER -> s

\* The template literal `authsignal_${state.toLowerCase()}`.
failureReasonOf(normalized) == "authsignal_" \o toLowerCase(normalized)

\* ---------------------------------------------------------- responses ----
NoResp == [http |-> 0, actionStatus |-> "NONE", detail |-> "", url |-> 0]

asgardeoSuccess ==
  [http |-> 200, actionStatus |-> "SUCCESS", detail |-> "", url |-> 0]

\* detail is the failureReason; the description is a fixed text per call site.
asgardeoFailure(reason) ==
  [http |-> 200, actionStatus |-> "FAILED", detail |-> reason, url |-> 0]

\* operations: [{ op: "redirect", url }]
asgardeoIncomplete(redirectUrl) ==
  [http |-> 200, actionStatus |-> "INCOMPLETE", detail |-> "redirect",
   url |-> redirectUrl]

\* detail is the errorCode.
asgardeoError(code) ==
  [http |-> 200, actionStatus |-> "ERROR", detail |-> code, url |-> 0]

invalidRequest ==
  [http |-> 400, actionStatus |-> "ERROR", detail |-> "INVALID_REQUEST", url |-> 0]

\* ----------------------------------------------------------- requests ----
\* allowedOperations of a request: absent, or a list of operation names.
NoOps == <<"absent">>
AllowedOperations == {NoOps, <<"other">>, <<"other", "redirect">>}

canRedirect_NoCheck(ops) == TRUE

canRedirect(ops) ==
  IF ops = NoOps THEN TRUE ELSE \E i \in 1..Len(ops) : ops[i] = "redirect"

\* The user identifier resolveUserId finds in the request ("" when none).
NoUser == ""
UserIds == {NoUser, "user-1"}

\* event.user of a request.  A field holds Undefined when it is absent, and
\* a claim can hold a value that is no string; present is whether event.user
\* is there at all.
Undefined == "undefined"
NonString == "<number>"

NoEventUser ==
  [present |-> FALSE, id |-> Undefined, username |-> Undefined,
   email |-> Undefined, sub |-> Undefined, user_id |-> Undefined]

EventUsers ==
  {NoEventUser} \cup
  [present : {TRUE}, id : {Undefined, " ", " id "},
   username : {Undefined, "", "name"}, email : {Undefined, " ", "mail "},
   sub : {Undefined, NonString, "sub"}, user_id : {Undefined, "", " uid"}]

\* String.prototype.trim on the strings of this model.
trim(s) ==
  CASE s = " " -> ""
    [] s = " id " -> "id"
    [] s = "mail " -> "mail"
    [] s = " uid" -> "uid"
    [] OTHER -> s

\* maybeString: "" stands for undefined.
maybeString(value) ==
  IF value \in {Undefined, NonString} THEN ""
  ELSE trim(value)

\* a ?? b on the results of maybeString
orElse(a, b) == IF a /= "" THEN a ELSE b

resolveUserId_LastWins(u) ==
  IF ~u.present THEN ""
  ELSE orElse(maybeString(u.user_id),
       orElse(maybeString(u.sub),
       orElse(maybeString(u.email),
       orElse(maybeString(u.username), maybeString(u.id)))))

resolveUserId(u) ==
  IF ~u.present THEN NoUser
  ELSE orElse(maybeString(u.id),
       orElse(maybeString(u.username),
       orElse(maybeString(u.email),
       orElse(maybeString(u.sub), maybeString(u.user_id)))))

\* ------------------------------------------------------- flow records ----
\* A FlowRecord; fields a variant does not carry hold "" or 0.  flowId is the
\* key it is stored under; updatedAt is expiresAt minus the flow TTL.
NoFlow ==
  [status |-> "ABSENT", outcome |-> "", failureReason |-> "", redirectUrl |-> 0,
   idempotencyKey |-> 0, userId |-> ""]

PendingFlowRecord_OtherUrl(userId, redirectUrl, idempotencyKey) ==
  [status |-> "PENDING", outcome |-> "", failureReason |-> "",
   redirectUrl |-> redirectUrl + 1, idempotencyKey |-> idempotencyKey,
   userId |-> userId]

PendingFlowRecord(userId, redirectUrl, idempotencyKey) ==
  [status |-> "PENDING", outcome |-> "", failureReason |-> "",
   redirectUrl |-> redirectUrl, idempotencyKey |-> idempotencyKey,
   userId |-> userId]

CompletedFlowRecord(userId, outcome, failureReason) ==
  [status |-> "COMPLETED", outcome |-> outcome, failureReason |-> failureReason,
   redirectUrl |-> 0, idempotencyKey |-> 0, userId |-> userId]

toCompletedFlow(flow, outcome, failureReason) ==
  CompletedFlowRecord(flow.userId, outcome, failureReason)

\* The response for a COMPLETED record read from the store.
completedResponse(flow) ==
  IF flow.outcome = "SUCCESS"
  THEN asgardeoSuccess
  ELSE asgardeoFailure(IF flow.failureReason = "" THEN "CHALLENGE_FAILED"
                       ELSE flow.failureReason)

\* ------------------------------------------------ external service -------
\* A trackAction result: state, url (0: none), idempotencyKey (0: none).
\* n numbers the challenge the call opened.
TrackResults(n) ==
  {[state |-> "allow", url |-> 0, idempotencyKey |-> 0],
   [state |-> "BLOCK", url |-> 0, idempotencyKey |-> 0],
   [state |-> "CHALLENGE_REQUIRED", url |-> n, idempotencyKey |-> n],
   [state |-> "CHALLENGE_REQUIRED", url |-> 0, idempotencyKey |-> n],
   [state |-> "CHALLENGE_REQUIRED", url |-> n, idempotencyKey |-> 0],
   [state |-> "SOMETHING_NEW", url |-> n, idempotencyKey |-> n]}

NoTrack == [state |-> "", url |-> 0, idempotencyKey |-> 0]

\* The states getAction answers with; "" stands for no call made.
GetActionStates ==
  {"CHALLENGE_SUCCEEDED", "challenge_failed", "CHALLENGE_REQUIRED", "SOMETHING_NEW"}

mapTrackState_CaseSensitive(state, response) ==
  IF state \in SUCCESS_STATES THEN [kind |-> "success", reason |-> "", redirectUrl |-> 0]
  ELSE IF state \in FAILED_STATES
    THEN [kind |-> "failed", reason |-> failureReasonOf(state), redirectUrl |-> 0]
  ELSE IF state \in PENDING_STATES /\ response.url /= 0
    THEN [kind |-> "pending", reason |-> "", redirectUrl |-> response.url]
  ELSE [kind |-> "unknown", reason |-> "", redirectUrl |-> 0]

mapTrackState(state, response) ==
  LET normalized == toUpperCase(state) IN
  IF normalized \in SUCCESS_STATES THEN [kind |-> "success", reason |-> "", redirectUrl |-> 0]
  ELSE IF normalized \in FAILED_STATES
    THEN [kind |-> "failed", reason |-> failureReasonOf(normalized), redirectUrl |-> 0]
  ELSE IF normalized \in PENDING_STATES /\ response.url /= 0
    THEN [kind |-> "pending", reason |-> "", redirectUrl |-> response.url]
  ELSE [kind |-> "unknown", reason |-> "", redirectUrl |-> 0]


\* Which of the three buckets resolvePendingFlow puts a getAction state in.
resolveBucket_CaseSensitive(state) ==
  IF state \in SUCCESS_STATES THEN "success"
  ELSE IF state \in FAILED_STATES THEN "failed" ELSE "pending"

resolveBucket(state) ==
  LET actionState == toUpperCase(state) IN
  IF actionState \in SUCCESS_STATES THEN "success"
  ELSE IF actionState \in FAILED_STATES THEN "failed" ELSE "pending"

\* --------------------------------------------------------- flow store ----
NoStored == [flow |-> NoFlow, expiresAt |-> 0]
NoLock == [owner |-> 0, expiresAt |-> 0]

\* MemoryFlowStore.pruneExpired: the stored record is dropped on this read.
isExpired_Never(stored, t) == FALSE

isExpired(stored, t) == stored /= NoStored /\ stored.expiresAt < t

\* MemoryFlowStore.get: the store after the lazy prune, and the record read.
storeAfterGet(fl, flowId, t) ==
  IF isExpired(fl[flowId], t) THEN [fl EXCEPT ![flowId] = NoStored] ELSE fl

storeGet_Absent(fl, flowId, t) == NoFlow

storeGet_Stale(fl, flowId, t) == fl[flowId].flow

storeGet(fl, flowId, t) == storeAfterGet(fl, flowId, t)[flowId].flow

\* MemoryFlowStore.save
storeSave_Lost(fl, flowId, record, t) == fl

storeSave_KeepsExpiry(fl, flowId, record, t) ==
  [fl EXCEPT ![flowId] =
     [flow |-> record,
      expiresAt |-> IF @ = NoStored THEN t + ttlSeconds * 1000 ELSE @.expiresAt]]

storeSave(fl, flowId, record, t) ==
  [fl EXCEPT ![flowId] = [flow |-> record, expiresAt |-> t + ttlSeconds * 1000]]

\* MemoryFlowStore.acquireLock: an unexpired lock denies the acquisition.
lockDenies_Never(existing, t) == FALSE

lockDenies_Forever(existing, t) == existing /= NoLock

lockDenies(existing, t) == existing /= NoLock /\ existing.expiresAt > t

\* MemoryFlowStore.releaseLock
releaseAny(lk, flowId, owner) == [lk EXCEPT ![flowId] = NoLock]

storeReleaseLock(lk, flowId, owner) ==
  IF lk[flowId] /= NoLock /\ lk[flowId].owner = owner
  THEN [lk EXCEPT ![flowId] = NoLock]
  ELSE lk

\* -------------------------------------------------------------- state ----
VARIABLES
  now,          \* Date.now()
  flows,        \* MemoryFlowStore.flows
  locks,        \* MemoryFlowStore.locks
  req,          \* the handler invocation in each slot
  calls,        \* authenticate calls started so far
  trackCalls,   \* per flowId: invocations of trackAction so far
  restarted,    \* per flowId: a trackAction result was not persisted, a lock
                \* expired under its holder and was re-acquired, or a record
                \* was dropped because its TTL had elapsed
  seen,         \* per flowId: whether a call was answered, the first
                \* INCOMPLETE url and the first SUCCESS or FAILED answer
  last,         \* the invocation that answered last
  released,     \* the last releaseLock call made on the store by itself
  http,         \* the call in progress in HttpAuthsignalClient.request
  cb,           \* the GET /api/callback invocation in each callback slot,
                \* and under CbLast the invocation that answered last
  probe,        \* the last get and the last save made on the store by itself
  arrived,      \* Date.now() when the latest authenticate call arrived, kept
                \* where the platform polls at timed intervals
  user          \* event.user of the requests, kept where resolveUserId is
                \* followed field by field

vars == <<now, flows, locks, req, calls, trackCalls, restarted, seen, last,
          released, http, cb, probe, arrived, user>>

\* No releaseLock call yet: owner is the token passed, before the lock found.
NoRelease == [owner |-> 0, before |-> NoLock]

\* No client call in progress.  attempt is the loop variable of request, log
\* the outcome of each fetch made, waited the delays slept, elapsed the time
\* spent in the call.
NoHttp ==
  [pc |-> "idle", attempt |-> 0, log |-> <<>>, waited |-> <<>>, elapsed |-> 0]

NoSeen == [any |-> FALSE, url |-> 0, term |-> NoResp]

\* A handler invocation.  pc is the await it is suspended at.  The fields of
\* its request are drawn at the step that first reads them (ops, userId); they
\* are fixed on arrival and read once, so the behaviours are the same.
IdleReq ==
  [pc |-> "idle", flowId |-> "f1", ops |-> <<"unread">>, userId |-> NoUser,
   flow |-> NoFlow, lockOwner |-> 0, denied |-> FALSE, thrown |-> FALSE,
   tr |-> NoTrack, ga |-> "", resp |-> NoResp, prior |-> NoSeen]

\* A callback response: a redirect to location, or an HTML page under a
\* status code.
NoCbResp == [http |-> 0, location |-> "", page |-> ""]

\* What validateChallenge answered; none before the call.
NoValidate == [state |-> "", isValid |-> "none"]

\* A callback invocation.  flow is flowForFailure, validates the number of
\* validateChallenge calls it has made, caught whether it entered its catch
\* block.  token is drawn at the step that reads it.  Of an invocation that
\* has answered, at is the time of the answer and alone whether no
\* authenticate call was in progress then.
IdleCb ==
  [pc |-> "idle", flowId |-> "", token |-> "", flow |-> NoFlow,
   result |-> NoValidate, validates |-> 0, caught |-> FALSE, resp |-> NoCbResp,
   at |-> 0, alone |-> FALSE]

\* No call made on the store yet.  op is the last call made, saved and
\* savedAt the record and the time of the last save, payload what the last
\* RedisFlowStore.get found under the key, result what the last get returned.
NoProbe ==
  [op |-> "", saved |-> NoFlow, savedAt |-> 0, payload |-> "", result |-> NoFlow,
   threw |-> FALSE]

\* Everything but the requests' event.user.
Constructed ==
  /\ probe = NoProbe
  /\ arrived = 0
  /\ cb = [c \in CbSlots \cup {CbLast} |-> IdleCb]
  /\ now = 0
  /\ flows = [f \in FlowIds |-> NoStored]
  /\ locks = [f \in FlowIds |-> NoLock]
  /\ req = [r \in Slots |-> IdleReq]
  /\ calls = 0
  /\ trackCalls = [f \in FlowIds |-> 0]
  /\ restarted = [f \in FlowIds |-> FALSE]
  /\ seen = [f \in FlowIds |-> NoSeen]
  /\ last = IdleReq
  /\ released = NoRelease
  /\ http = NoHttp

Init == Constructed /\ user = NoEventUser

\* ------------------------------------------------------------ helpers ----
Bump(counter, flowId) == [counter EXCEPT ![flowId] = @ + 1]

Mark(flag, flowId) == [flag EXCEPT ![flowId] = TRUE]

\* seen after the answer rsp has been given for the flow.
Answered(sn, rsp) ==
  [any |-> TRUE,
   url |-> IF rsp.actionStatus = "INCOMPLETE" /\ sn.url = 0 THEN rsp.url ELSE sn.url,
   term |-> IF rsp.actionStatus \in {"SUCCESS", "FAILED"} /\ sn.term = NoResp
            THEN rsp ELSE sn.term]

\* randomUUID(): a token no lock and no invocation holds.
randomUUID ==
  CHOOSE n \in 1..(NumSlots + 1) :
    /\ \A f \in FlowIds : locks[f].owner /= n
    /\ \A r \in Slots : req[r].lockOwner /= n

\* response.status(...).json(rsp); return: the invocation has answered.  Inside
\* the critical section the finally block (releaseLock) still runs.
Finish_NoRelease(q, rsp) == IdleReq

Finish(q, rsp) ==
  IF q.lockOwner /= 0
  THEN [IdleReq EXCEPT !.pc = "release", !.flowId = q.flowId,
                       !.lockOwner = q.lockOwner]
  ELSE IdleReq

\* An exception leaves the inner try through finally (releaseLock) and reaches
\* the outer catch, which answers INTERNAL_ERROR.
Throw(q) ==
  IF q.lockOwner /= 0
  THEN [q EXCEPT !.thrown = TRUE, !.pc = "release"]
  ELSE IdleReq

\* What last keeps of an invocation that has ended.
Ended(q, pc, rsp) ==
  [IdleReq EXCEPT !.pc = pc, !.resp = rsp, !.flowId = q.flowId, !.ops = q.ops,
                  !.flow = q.flow, !.denied = q.denied, !.thrown = q.thrown,
                  !.tr = q.tr, !.ga = q.ga, !.prior = q.prior]

\* The invocation q answers rsp.
Answers(q, rsp) ==
  /\ last' = Ended(q, "done", rsp)
  /\ seen' = [seen EXCEPT ![q.flowId] = Answered(@, rsp)]

\* q throws: outside the critical section that is answered at once.
Throws(q) ==
  IF q.lockOwner /= 0 THEN UNCHANGED <<last, seen>>
  ELSE Answers([q EXCEPT !.thrown = TRUE], asgardeoError("INTERNAL_ERROR"))

\* createAuthsignalClientResolver: no Basic-auth username, no client.
Secrets == {"", "sk_live"}

resolverThrows(secret) == secret = ""

\* ------------------------------------------------------------ actions ----
\* The handler up to its first await: schema validation, resolveAuthsignalClient
\* (whose exception is outside every try).  A new invocation takes the lowest
\* free slot; budget bounds the invocations of one behaviour.
StartWithin(r, budget) ==
  /\ req[r].pc = "idle"
  /\ \A r2 \in Slots : r2 < r => req[r2].pc /= "idle"
  /\ calls < budget
  /\ calls' = calls + 1
  /\ \E f \in FlowIds, valid \in BOOLEAN, secret \in Secrets :
       LET q == [IdleReq EXCEPT !.flowId = f, !.prior = seen[f]] IN
       IF ~valid THEN /\ last' = Ended(q, "done", invalidRequest)
                      /\ UNCHANGED req
       ELSE IF resolverThrows(secret)
         THEN /\ last' = Ended(q, "escaped", NoResp)
              /\ UNCHANGED req
       ELSE /\ req' = [req EXCEPT ![r] = [q EXCEPT !.pc = "get1"]]
            /\ UNCHANGED last
  /\ UNCHANGED <<now, flows, locks, trackCalls, restarted, seen>>
  /\ UNCHANGED <<released, http, cb, probe>>

Start(r) == StartWithin(r, MaxCalls) /\ UNCHANGED <<arrived, user>>

\* store.get: the effect on the store; a dropped record restarts the flow.
GetEffect(f) ==
  /\ flows' = storeAfterGet(flows, f, now)
  /\ restarted' = IF flows' /= flows THEN Mark(restarted, f) ELSE restarted

\* A record was read: PENDING goes on to resolvePendingFlow, COMPLETED is
\* answered from the record.
Found(r, flow) ==
  LET q == req[r] IN
  IF flow.status = "PENDING"
  THEN /\ req' = [req EXCEPT ![r] = [q EXCEPT !.flow = flow, !.pc = "getAction"]]
       /\ UNCHANGED <<last, seen>>
  ELSE /\ req' = [req EXCEPT ![r] = Finish(q, completedResponse(flow))]
       /\ Answers([q EXCEPT !.flow = flow], completedResponse(flow))

\* const existingFlow = await store.get(flowId)
Get1(r) ==
  LET q == req[r]  f == q.flowId  flow == storeGet(flows, f, now) IN
  /\ q.pc = "get1"
  /\ \/ /\ GetEffect(f)
        /\ IF flow /= NoFlow THEN Found(r, flow)
           ELSE /\ req' = [req EXCEPT ![r] = [q EXCEPT !.pc = "acquire"]]
                /\ UNCHANGED <<last, seen>>
     \/ /\ req' = [req EXCEPT ![r] = Throw(q)]
        /\ Throws(q)
        /\ UNCHANGED <<flows, restarted>>
  /\ UNCHANGED <<now, locks, calls, trackCalls>>
  /\ UNCHANGED <<released, http, cb, probe, arrived, user>>

\* const lockOwner = await store.acquireLock(flowId, LOCK_TTL_MS)
Acquire_NoLock(r) ==
  LET q == req[r] IN
  /\ q.pc = "acquire"
  /\ req' = [req EXCEPT ![r] = [q EXCEPT !.pc = "get3"]]
  /\ UNCHANGED <<now, flows, locks, calls, trackCalls, restarted, seen, last,
                 released, http, cb, probe, arrived, user>>

Acquire(r) ==
  LET q == req[r]  f == q.flowId  existing == locks[f] IN
  /\ q.pc = "acquire"
  /\ \/ /\ lockDenies(existing, now)
        /\ req' = [req EXCEPT ![r] = [q EXCEPT !.denied = TRUE, !.pc = "get2"]]
        /\ UNCHANGED <<locks, restarted, last, seen>>
     \/ /\ ~lockDenies(existing, now)
        /\ locks' = [locks EXCEPT ![f] =
                       [owner |-> randomUUID, expiresAt |-> now + LOCK_TTL_MS]]
        /\ restarted' = IF /\ existing /= NoLock
                           /\ existing.expiresAt <= now
                           /\ \E r2 \in Slots : req[r2].lockOwner = existing.owner
                        THEN Mark(restarted, f) ELSE restarted
        /\ req' = [req EXCEPT ![r] = [q EXCEPT !.lockOwner = randomUUID, !.pc = "get3"]]
        /\ UNCHANGED <<last, seen>>
     \/ /\ req' = [req EXCEPT ![r] = Throw(q)]
        /\ Throws(q)
        /\ UNCHANGED <<locks, restarted>>
  /\ UNCHANGED <<now, flows, calls, trackCalls>>
  /\ UNCHANGED <<released, http, cb, probe, arrived, user>>

\* const lockRaceFlow = await store.get(flowId), after the lock was denied
Get2_AlwaysLocked(r) ==
  LET q == req[r] IN
  /\ q.pc = "get2"
  /\ req' = [req EXCEPT ![r] = Finish(q, asgardeoError("FLOW_LOCKED"))]
  /\ Answers(q, asgardeoError("FLOW_LOCKED"))
  /\ UNCHANGED <<now, flows, locks, calls, trackCalls, restarted, released, http, cb, probe, arrived, user>>

Get2(r) ==
  LET q == req[r]  f == q.flowId  flow == storeGet(flows, f, now) IN
  /\ q.pc = "get2"
  /\ \/ /\ GetEffect(f)
        /\ IF flow /= NoFlow THEN Found(r, flow)
           ELSE /\ req' = [req EXCEPT ![r] = Finish(q, asgardeoError("FLOW_LOCKED"))]
                /\ Answers(q, asgardeoError("FLOW_LOCKED"))
     \/ /\ req' = [req EXCEPT ![r] = Throw(q)]
        /\ Throws(q)
        /\ UNCHANGED <<flows, restarted>>
  /\ UNCHANGED <<now, locks, calls, trackCalls>>
  /\ UNCHANGED <<released, http, cb, probe, arrived, user>>

\* const doubleCheckFlow = await store.get(flowId), holding the lock; then
\* resolveUserId
Get3_NoDoubleCheck(r) ==
  LET q == req[r] IN
  /\ q.pc = "get3"
  /\ req' = [req EXCEPT ![r] = [q EXCEPT !.userId = "user-1", !.pc = "track"]]
  /\ UNCHANGED <<now, flows, locks, calls, trackCalls, restarted, seen, last,
                 released, http, cb, probe, arrived, user>>

Get3With(r, userIds) ==
  LET q == req[r]  f == q.flowId  flow == storeGet(flows, f, now) IN
  /\ \/ /\ GetEffect(f)
        /\ IF flow /= NoFlow THEN Found(r, flow)
           ELSE \E userId \in userIds :
                  LET q1 == [q EXCEPT !.userId = userId] IN
                  IF userId = NoUser
                  THEN /\ req' = [req EXCEPT ![r] =
                                    Finish(q1, asgardeoError("MISSING_USER"))]
                       /\ Answers(q1, asgardeoError("MISSING_USER"))
                  ELSE /\ req' = [req EXCEPT ![r] = [q1 EXCEPT !.pc = "track"]]
                       /\ UNCHANGED <<last, seen>>
     \/ /\ req' = [req EXCEPT ![r] = Throw(q)]
        /\ Throws(q)
        /\ UNCHANGED <<flows, restarted>>
  /\ UNCHANGED <<now, locks, calls, trackCalls>>
  /\ UNCHANGED <<released, http, cb, probe, arrived, user>>

Get3(r) ==
  /\ req[r].pc = "get3"
  /\ Get3With(r, UserIds)

\* The same for a request whose event.user is user.
Get3User(r) ==
  /\ req[r].pc = "get3"
  /\ Get3With(r, {resolveUserId(user)})

ThrownTrack == [state |-> "THROW", url |-> 0, idempotencyKey |-> 0]

\* The answer the handler gives right after trackAction, NoResp when it goes on
\* to save a record first.
trackResponse(tres, ops) ==
  LET mapped == mapTrackState(tres.state, tres) IN
  IF mapped.kind = "pending"
  THEN IF tres.idempotencyKey = 0 THEN asgardeoError("AUTHSIGNAL_ERROR")
       ELSE IF ~canRedirect(ops) THEN asgardeoError("REDIRECT_NOT_ALLOWED")
       ELSE NoResp
  ELSE IF mapped.kind \in {"success", "failed"} THEN NoResp
  ELSE asgardeoError("AUTHSIGNAL_ERROR")

\* Whether the handler reads allowedOperations after this trackAction result.
readsOps(tres) ==
  mapTrackState(tres.state, tres).kind = "pending" /\ tres.idempotencyKey /= 0

\* const trackResult = await authsignal.trackAction(...)
Track_PersistsUnknown(r) ==
  LET q == req[r]  f == q.flowId
      q1 == [q EXCEPT !.tr = [state |-> "SOMETHING_NEW", url |-> 1,
                              idempotencyKey |-> 1]] IN
  /\ q.pc = "track"
  /\ trackCalls' = Bump(trackCalls, f)
  /\ flows' = storeSave(flows, f, PendingFlowRecord(q.userId, 1, 1), now)
  /\ req' = [req EXCEPT ![r] = Finish(q1, asgardeoError("AUTHSIGNAL_ERROR"))]
  /\ Answers(q1, asgardeoError("AUTHSIGNAL_ERROR"))
  /\ restarted' = Mark(restarted, f)
  /\ UNCHANGED <<now, locks, calls>>
  /\ UNCHANGED <<released, http, cb, probe, arrived, user>>

Track(r) ==
  LET q == req[r]  f == q.flowId IN
  /\ q.pc = "track"
  /\ trackCalls' = Bump(trackCalls, f)
  /\ \/ \E tres \in TrackResults(trackCalls[f] + 1) :
        \E ops \in IF readsOps(tres) THEN AllowedOperations ELSE {q.ops} :
          LET q1 == [q EXCEPT !.tr = tres, !.ops = ops]
              rsp == trackResponse(tres, ops) IN
          IF rsp = NoResp
          THEN /\ req' = [req EXCEPT ![r] = [q1 EXCEPT !.pc = "saveInit"]]
               /\ UNCHANGED <<restarted, last, seen>>
          ELSE /\ req' = [req EXCEPT ![r] = Finish(q1, rsp)]
               /\ Answers(q1, rsp)
               /\ restarted' = Mark(restarted, f)
     \/ /\ req' = [req EXCEPT ![r] = Throw([q EXCEPT !.tr = ThrownTrack])]
        /\ restarted' = Mark(restarted, f)
        /\ UNCHANGED <<last, seen>>
  /\ UNCHANGED <<now, flows, locks, calls>>
  /\ UNCHANGED <<released, http, cb, probe, arrived, user>>

\* The record the initiation persists for a mapped trackAction result.
initRecord_NoKey(q) ==
  LET mapped == mapTrackState(q.tr.state, q.tr) IN
  IF mapped.kind = "pending"
  THEN PendingFlowRecord(q.userId, mapped.redirectUrl, 0)
  ELSE IF mapped.kind = "success" THEN CompletedFlowRecord(q.userId, "SUCCESS", "")
  ELSE CompletedFlowRecord(q.userId, "FAILED", mapped.reason)

initRecord(q) ==
  LET mapped == mapTrackState(q.tr.state, q.tr) IN
  IF mapped.kind = "pending"
  THEN PendingFlowRecord(q.userId, mapped.redirectUrl, q.tr.idempotencyKey)
  ELSE IF mapped.kind = "success" THEN CompletedFlowRecord(q.userId, "SUCCESS", "")
  ELSE CompletedFlowRecord(q.userId, "FAILED", mapped.reason)

\* The answer of the initiation once the record is saved.
initResponse(q) ==
  LET mapped == mapTrackState(q.tr.state, q.tr) IN
  IF mapped.kind = "pending" THEN asgardeoIncomplete(mapped.redirectUrl)
  ELSE IF mapped.kind = "success" THEN asgardeoSuccess
  ELSE asgardeoFailure(mapped.reason)

\* await store.save(...) of the initiation, then the answer
SaveInit(r) ==
  LET q == req[r]  f == q.flowId IN
  /\ q.pc = "saveInit"
  /\ \/ /\ flows' = storeSave(flows, f, initRecord(q), now)
        /\ req' = [req EXCEPT ![r] = Finish(q, initResponse(q))]
        /\ Answers(q, initResponse(q))
        /\ UNCHANGED restarted
     \/ /\ req' = [req EXCEPT ![r] = Throw(q)]
        /\ restarted' = Mark(restarted, f)
        /\ UNCHANGED <<flows, last, seen>>
  /\ UNCHANGED <<now, locks, calls, trackCalls>>
  /\ UNCHANGED <<released, http, cb, probe, arrived, user>>

\* resolvePendingFlow: await authsignal.getAction(...), and its catch
GetAction_Propagates(r) ==
  LET q == req[r] IN
  /\ q.pc = "getAction"
  /\ req' = [req EXCEPT ![r] = Throw([q EXCEPT !.ga = "THROW"])]
  /\ Throws([q EXCEPT !.ga = "THROW"])
  /\ UNCHANGED <<now, flows, locks, calls, trackCalls, restarted, released, http, cb, probe, arrived, user>>

GetAction_NeverResolves(r) ==
  LET q == req[r] IN
  /\ q.pc = "getAction"
  /\ \/ \E state \in GetActionStates :
          req' = [req EXCEPT ![r] = [q EXCEPT !.ga = state, !.pc = "savePending"]]
     \/ req' = [req EXCEPT ![r] = [q EXCEPT !.ga = "THROW", !.pc = "savePending"]]
  /\ UNCHANGED <<now, flows, locks, calls, trackCalls, restarted, seen, last>>
  /\ UNCHANGED <<released, http, cb, probe, arrived, user>>

GetAction(r) ==
  LET q == req[r] IN
  /\ q.pc = "getAction"
  /\ \/ \E state \in GetActionStates :
          req' = [req EXCEPT ![r] =
                    [q EXCEPT !.ga = state,
                              !.pc = IF resolveBucket(state) = "pending"
                                     THEN "savePending" ELSE "saveCompleted"]]
     \/ req' = [req EXCEPT ![r] = [q EXCEPT !.ga = "THROW", !.pc = "savePending"]]
  /\ UNCHANGED <<now, flows, locks, calls, trackCalls, restarted, seen, last>>
  /\ UNCHANGED <<released, http, cb, probe, arrived, user>>

\* The answer resolvePendingFlow gives for a terminal getAction state.
resolvedResponse(state) ==
  IF resolveBucket(state) = "success" THEN asgardeoSuccess
  ELSE asgardeoFailure(failureReasonOf(toUpperCase(state)))

\* resolvePendingFlow: await store.save(toCompletedFlow(...)); a failing save
\* is caught by the same catch as a failing getAction.
SaveCompleted_Unsaved(r) ==
  LET q == req[r]  rsp == resolvedResponse(q.ga) IN
  /\ q.pc = "saveCompleted"
  /\ req' = [req EXCEPT ![r] = Finish(q, rsp)]
  /\ Answers(q, rsp)
  /\ UNCHANGED <<now, flows, locks, calls, trackCalls, restarted>>
  /\ UNCHANGED <<released, http, cb, probe, arrived, user>>

SaveCompleted(r) ==
  LET q == req[r]  f == q.flowId  rsp == resolvedResponse(q.ga) IN
  /\ q.pc = "saveCompleted"
  /\ \/ /\ flows' = storeSave(flows, f,
                      toCompletedFlow(q.flow, rsp.actionStatus, rsp.detail), now)
        /\ req' = [req EXCEPT ![r] = Finish(q, rsp)]
        /\ Answers(q, rsp)
     \/ /\ req' = [req EXCEPT ![r] = [q EXCEPT !.pc = "savePending"]]
        /\ UNCHANGED <<flows, last, seen>>
  /\ UNCHANGED <<now, locks, calls, trackCalls, restarted>>
  /\ UNCHANGED <<released, http, cb, probe, arrived, user>>

\* The answer resolvePendingFlow gives for a flow that stays pending.
pendingResponse_Failed(ops, flow) == asgardeoFailure("authsignal_error")

pendingResponse(ops, flow) ==
  IF ~canRedirect(ops) THEN asgardeoError("REDIRECT_NOT_ALLOWED")
  ELSE asgardeoIncomplete(flow.redirectUrl)

\* resolvePendingFlow: await store.save({ ...flow, updatedAt }), then
\* canRedirect and the answer
SavePending_NoSave(r) ==
  LET q == req[r] IN
  /\ q.pc = "savePending"
  /\ \E ops \in AllowedOperations :
       LET q1 == [q EXCEPT !.ops = ops] IN
       /\ req' = [req EXCEPT ![r] = Finish(q1, pendingResponse(ops, q.flow))]
       /\ Answers(q1, pendingResponse(ops, q.flow))
  /\ UNCHANGED <<now, flows, locks, calls, trackCalls, restarted>>
  /\ UNCHANGED <<released, http, cb, probe, arrived, user>>

SavePending(r) ==
  LET q == req[r]  f == q.flowId IN
  /\ q.pc = "savePending"
  /\ \/ /\ flows' = storeSave(flows, f, q.flow, now)
        /\ \E ops \in AllowedOperations :
             LET q1 == [q EXCEPT !.ops = ops] IN
             /\ req' = [req EXCEPT ![r] = Finish(q1, pendingResponse(ops, q.flow))]
             /\ Answers(q1, pendingResponse(ops, q.flow))
     \/ /\ req' = [req EXCEPT ![r] = Throw(q)]
        /\ Throws(q)
        /\ UNCHANGED flows
  /\ UNCHANGED <<now, locks, calls, trackCalls, restarted>>
  /\ UNCHANGED <<released, http, cb, probe, arrived, user>>

\* finally { await store.releaseLock(flowId, lockOwner) }, its own catch, and
\* the outer catch for an exception that left the critical section
Release(r) ==
  LET q == req[r]  f == q.flowId IN
  /\ q.pc = "release"
  /\ \/ locks' = storeReleaseLock(locks, f, q.lockOwner)
     \/ UNCHANGED locks
  /\ req' = [req EXCEPT ![r] = IdleReq]
  /\ IF q.thrown THEN Answers(q, asgardeoError("INTERNAL_ERROR"))
     ELSE UNCHANGED <<last, seen>>
  /\ UNCHANGED <<now, flows, calls, trackCalls, restarted>>
  /\ UNCHANGED <<released, http, cb, probe, arrived, user>>

\* Time passes.
Tick ==
  /\ now < MaxTicks * TickMs
  /\ now' = now + TickMs
  /\ UNCHANGED <<flows, locks, req, calls, trackCalls, restarted, seen, last>>
  /\ UNCHANGED <<released, http, cb, probe, arrived, user>>

Next ==
  \/ \E r \in Slots :
       \/ Start(r) \/ Get1(r) \/ Acquire(r) \/ Get2(r) \/ Get3(r) \/ Track(r)
       \/ SaveInit(r) \/ GetAction(r) \/ SaveCompleted(r) \/ SavePending(r)
       \/ Release(r)
  \/ Tick

Spec == Init /\ [][Next]_vars

\* The behaviours in which no time passes, with one more invocation.
StartStill(r) == StartWithin(r, MaxCalls + 1) /\ UNCHANGED <<arrived, user>>

NextStill ==
  \E r \in Slots :
    \/ StartStill(r) \/ Get1(r) \/ Acquire(r) \/ Get2(r) \/ Get3(r) \/ Track(r)
    \/ SaveInit(r) \/ GetAction(r) \/ SaveCompleted(r) \/ SavePending(r)
    \/ Release(r)

SpecStill == Init /\ [][NextStill]_vars

\* The behaviours in which the platform polls at intervals shorter than the
\* flow TTL: the clock advances by PollMs, and only while the step keeps it
\* less than the flow TTL after the arrival of the latest call that passed
\* validation.
Poll(r) ==
  /\ StartWithin(r, MaxCalls)
  /\ arrived' = IF req'[r].pc = "get1" THEN now ELSE arrived
  /\ UNCHANGED user

TickPoll ==
  /\ now < MaxTicks * PollMs
  /\ now + PollMs < arrived + ttlSeconds * 1000
  /\ now' = now + PollMs
  /\ UNCHANGED <<flows, locks, req, calls, trackCalls, restarted, seen, last>>
  /\ UNCHANGED <<released, http, cb, probe, arrived, user>>

NextPoll ==
  \/ \E r \in Slots :
       \/ Poll(r) \/ Get1(r) \/ Acquire(r) \/ Get2(r) \/ Get3(r) \/ Track(r)
       \/ SaveInit(r) \/ GetAction(r) \/ SaveCompleted(r) \/ SavePending(r)
       \/ Release(r)
  \/ TickPoll

SpecPoll == Init /\ [][NextPoll]_vars

\* One authenticate call for an unseen flowId, for every event.user.
InitUser == Constructed /\ user \in EventUsers

StartUser(r) == StartWithin(r, 1) /\ UNCHANGED <<arrived, user>>

NextUser ==
  \/ \E r \in Slots :
       \/ StartUser(r) \/ Get1(r) \/ Acquire(r) \/ Get3User(r) \/ Track(r)
       \/ SaveInit(r) \/ Release(r)
  \/ Tick

SpecUser == InitUser /\ [][NextUser]_vars

\* ------------------------------------------------- the store's locks ----
\* MemoryFlowStore.acquireLock and releaseLock called by any caller at any
\* time: a caller without a token asks for the lock of a flowId, a caller with
\* a token releases with it, however long ago it got it.
LockAcquire(r) ==
  /\ req[r].pc = "idle"
  /\ \E f \in FlowIds :
       IF lockDenies(locks[f], now)
       THEN UNCHANGED <<locks, req>>
       ELSE /\ locks' = [locks EXCEPT ![f] =
                           [owner |-> randomUUID, expiresAt |-> now + LOCK_TTL_MS]]
            /\ req' = [req EXCEPT ![r] =
                         [IdleReq EXCEPT !.pc = "release", !.flowId = f,
                                         !.lockOwner = randomUUID]]
  /\ UNCHANGED <<now, flows, calls, trackCalls, restarted, seen, last>>
  /\ UNCHANGED <<released, http, cb, probe, arrived, user>>

LockRelease_DropsFlow(r) ==
  LET q == req[r] IN
  /\ q.pc = "release"
  /\ locks' = storeReleaseLock(locks, q.flowId, q.lockOwner)
  /\ flows' = [flows EXCEPT ![q.flowId] = NoStored]
  /\ released' = [owner |-> q.lockOwner, before |-> locks[q.flowId]]
  /\ req' = [req EXCEPT ![r] = IdleReq]
  /\ UNCHANGED <<now, calls, trackCalls, restarted, seen, last, http, cb, probe, arrived, user>>

LockRelease(r) ==
  LET q == req[r] IN
  /\ q.pc = "release"
  /\ locks' = storeReleaseLock(locks, q.flowId, q.lockOwner)
  /\ released' = [owner |-> q.lockOwner, before |-> locks[q.flowId]]
  /\ req' = [req EXCEPT ![r] = IdleReq]
  /\ UNCHANGED <<now, flows, calls, trackCalls, restarted, seen, last, http, cb, probe, arrived, user>>

NextLock ==
  \/ \E r \in Slots : LockAcquire(r) \/ LockRelease(r)
  \/ Tick

SpecLock == Init /\ [][NextLock]_vars

\* ------------------------------------------------ the resilient client ----
TIMEOUT_MS == 5000
MAX_RETRIES == 2

\* What one fetch can end with: fetch rejecting with a TypeError (network or
\* transport failure) or with an AbortError (the timeout fired), or a response
\* with a status and a body that is JSON, not JSON, or empty.
HttpStatuses == {200, 400, 404, 429, 500, 503}

FetchOutcomes ==
  {[kind |-> k, status |-> 0, body |-> ""] : k \in {"TypeError", "AbortError"}}
  \cup {[kind |-> "response", status |-> st, body |-> b] :
          st \in HttpStatuses, b \in {"json", "text", "empty"}}

\* response.ok
responseOk(statusCode) == statusCode >= 200 /\ statusCode <= 299

shouldRetryStatusCode_AnyError(statusCode) == statusCode >= 400

shouldRetryStatusCode(statusCode) == statusCode = 429 \/ statusCode >= 500

isRetryableError(error) == error \in {"AbortError", "TypeError"}

retryDelay_Flat(attempt) == 150

retryDelay(attempt) ==
  LET base == 150 IN base * 2 ^ attempt

\* The class of the error the try block raises for a fetch outcome ("" when it
\* raises none): the rejection of fetch, the SyntaxError of JSON.parse on a
\* body that is not JSON, the Error thrown for a response that is not ok.
errorRaised(o) ==
  IF o.kind /= "response" THEN o.kind
  ELSE IF o.body = "text" THEN "SyntaxError"
  ELSE IF ~responseOk(o.status) THEN "Error"
  ELSE ""

\* Where one pass of the loop body ends for a fetch outcome: in sleep and
\* continue, in return parsedResponse, or in a throw out of request.
attemptResult_NoLimit(o, attempt) ==
  IF /\ o.kind = "response" /\ o.body /= "text" /\ ~responseOk(o.status)
     /\ shouldRetryStatusCode(o.status)
  THEN "sleep"
  ELSE IF errorRaised(o) = "" THEN "returned"
  ELSE IF isRetryableError(errorRaised(o)) THEN "sleep"
  ELSE "thrown"

attemptResult(o, attempt) ==
  IF /\ o.kind = "response" /\ o.body /= "text" /\ ~responseOk(o.status)
     /\ shouldRetryStatusCode(o.status) /\ attempt < MAX_RETRIES
  THEN "sleep"
  ELSE IF errorRaised(o) = "" THEN "returned"
  ELSE IF isRetryableError(errorRaised(o)) /\ attempt < MAX_RETRIES THEN "sleep"
  ELSE "thrown"

\* trackAction or getAction is called: request starts its loop.
HttpCall ==
  /\ http.pc \in {"idle", "returned", "thrown"}
  /\ http' = [NoHttp EXCEPT !.pc = "fetch"]
  /\ UNCHANGED <<now, flows, locks, req, calls, trackCalls, restarted, seen, last,
                 released, cb, probe, arrived, user>>

\* One fetch and the rest of the loop body up to sleep, return or throw.  An
\* abort ends the fetch TIMEOUT_MS after it began, anything else sooner.
HttpAttempt ==
  /\ http.pc = "fetch"
  /\ \E o \in FetchOutcomes :
     \E took \in IF o.kind = "AbortError" THEN {TIMEOUT_MS} ELSE {0, TIMEOUT_MS - 1} :
       http' = [http EXCEPT !.log = Append(@, o),
                            !.elapsed = @ + took,
                            !.pc = attemptResult(o, http.attempt)]
  /\ UNCHANGED <<now, flows, locks, req, calls, trackCalls, restarted, seen, last,
                 released, cb, probe, arrived, user>>

\* await sleep(this.retryDelay(attempt)); continue
HttpSleep ==
  /\ http.pc = "sleep"
  /\ http' = [http EXCEPT !.waited = Append(@, retryDelay(http.attempt)),
                          !.elapsed = @ + retryDelay(http.attempt),
                          !.attempt = @ + 1,
                          !.pc = "fetch"]
  /\ UNCHANGED <<now, flows, locks, req, calls, trackCalls, restarted, seen, last,
                 released, cb, probe, arrived, user>>

NextHttp == HttpCall \/ HttpAttempt \/ HttpSleep

\* Every fetch ends (at the latest when the timeout aborts it) and every sleep
\* ends.
SpecHttp ==
  Init /\ [][NextHttp]_vars /\ WF_vars(HttpAttempt) /\ WF_vars(HttpSleep)

\* ================================================ the store by itself ====
\* MemoryFlowStore called by any caller at any time, and the first read of an
\* authenticate call made over RedisFlowStore.

\* The records callers save.
StoreRecords ==
  {PendingFlowRecord("user-1", 1, 1), PendingFlowRecord("user-1", 2, 2),
   CompletedFlowRecord("user-1", "SUCCESS", "")}

\* JSON.stringify of a flow record
stringify(record) ==
  "{status:" \o record.status \o ",outcome:" \o record.outcome
    \o ",failureReason:" \o record.failureReason
    \o ",redirectUrl:" \o ToString(record.redirectUrl)
    \o ",idempotencyKey:" \o ToString(record.idempotencyKey)
    \o ",userId:" \o record.userId \o "}"

\* What redis.get can find under a flow key: no key (null), an empty string,
\* the JSON of a record, a JSON text cut short, a text that is no JSON.
Nil == "(nil)"
RedisPayloads ==
  {Nil, "", "{status:PENDING,outcome:", "<html>"}
    \cup {stringify(record) : record \in StoreRecords}

\* JSON.parse: whether it returns, and what.
jsonParses(payload) == \E record \in StoreRecords : stringify(record) = payload

jsonParse(payload) == CHOOSE record \in StoreRecords : stringify(record) = payload

\* RedisFlowStore.get after redis.get has answered payload: whether it throws
\* and the record it returns.
redisGet_NoCatch(payload) ==
  [threw |-> payload \notin {Nil, ""} /\ ~jsonParses(payload),
   flow |-> IF payload \notin {Nil, ""} /\ jsonParses(payload)
            THEN jsonParse(payload) ELSE NoFlow]

redisGet(payload) ==
  IF payload = Nil \/ payload = "" THEN [threw |-> FALSE, flow |-> NoFlow]
  ELSE IF jsonParses(payload) THEN [threw |-> FALSE, flow |-> jsonParse(payload)]
  ELSE [threw |-> FALSE, flow |-> NoFlow]

\* MemoryFlowStore.save
StoreSave ==
  /\ calls < MaxStoreCalls
  /\ calls' = calls + 1
  /\ \E f \in FlowIds, record \in StoreRecords :
       /\ flows' = storeSave(flows, f, record, now)
       /\ probe' = [probe EXCEPT !.op = "save", !.saved = record, !.savedAt = now]
  /\ UNCHANGED <<now, locks, req, trackCalls, restarted, seen, last, released,
                 http, cb, arrived, user>>

\* MemoryFlowStore.get
StoreGet ==
  /\ calls < MaxStoreCalls
  /\ calls' = calls + 1
  /\ \E f \in FlowIds :
       /\ flows' = storeAfterGet(flows, f, now)
       /\ probe' = [probe EXCEPT !.op = "get", !.result = storeGet(flows, f, now)]
  /\ UNCHANGED <<now, locks, req, trackCalls, restarted, seen, last, released,
                 http, cb, arrived, user>>

\* An authenticate call up to the end of its first read, made over
\* RedisFlowStore: const existingFlow = await store.get(flowId)
RedisGet1(r) ==
  /\ req[r].pc = "idle"
  /\ \A r2 \in Slots : r2 < r => req[r2].pc /= "idle"
  /\ calls < MaxStoreCalls
  /\ calls' = calls + 1
  /\ \E payload \in RedisPayloads :
       LET got == redisGet(payload) IN
       /\ probe' = [probe EXCEPT !.op = "redis.get", !.payload = payload,
                                 !.result = got.flow, !.threw = got.threw]
       /\ IF got.threw
          THEN /\ UNCHANGED req
               /\ Answers([req[r] EXCEPT !.thrown = TRUE],
                          asgardeoError("INTERNAL_ERROR"))
          ELSE IF got.flow /= NoFlow THEN Found(r, got.flow)
          ELSE /\ req' = [req EXCEPT ![r] = [req[r] EXCEPT !.pc = "acquire"]]
               /\ UNCHANGED <<last, seen>>
  /\ UNCHANGED <<now, flows, locks, trackCalls, restarted, released, http, cb, arrived, user>>

NextStore ==
  \/ StoreSave
  \/ StoreGet
  \/ \E r \in Slots : RedisGet1(r) \/ LockAcquire(r) \/ LockRelease(r)
  \/ Tick

SpecStore == Init /\ [][NextStore]_vars

\* ================================================ the callback variant ====
\* src/src/logger.ts: POST /api/authenticate that only reads what the callback
\* wrote, and GET /api/callback.  Both run over the same flow store; an
\* authenticate invocation runs in a handler slot, a callback invocation in a
\* callback slot.

\* The tenant hint extractTenantHint finds in a request ("" when none).
TenantHints == {"", "t1"}

\* encodeURIComponent on the flow ids and tenant hints above.
encodeURIComponent(s) == s

\* buildResumeUrl for the template "https://idp/{tenant}/resume?flowId={flowId}"
buildResumeUrl(flowId, tenantHint) ==
  "https://idp/" \o (IF tenantHint /= "" THEN encodeURIComponent(tenantHint) ELSE "")
    \o "/resume?flowId=" \o encodeURIComponent(flowId)

\* Records of this variant carry resumeUrl and no idempotencyKey.
CallbackPendingFlowRecord(userId, resumeUrl, redirectUrl) ==
  [status |-> "PENDING", outcome |-> "", failureReason |-> "",
   redirectUrl |-> redirectUrl, userId |-> userId, resumeUrl |-> resumeUrl]

CallbackCompletedFlowRecord(userId, resumeUrl, outcome, failureReason) ==
  [status |-> "COMPLETED", outcome |-> outcome, failureReason |-> failureReason,
   redirectUrl |-> 0, userId |-> userId, resumeUrl |-> resumeUrl]

\* toCompletedFlow of logger.ts
callbackToCompletedFlow(flow, outcome, failureReason) ==
  CallbackCompletedFlowRecord(flow.userId, flow.resumeUrl, outcome, failureReason)

\* response.redirect(302, url)
callbackRedirect(url) == [http |-> 302, location |-> url, page |-> ""]

\* response.status(code).type("html").send(renderSimplePage(title, ...))
callbackPage(code, title) == [http |-> code, location |-> "", page |-> title]

\* Raw values of a query parameter: absent (""), blank, or a value.
RawFlowIds == {"", " ", "f1"}
RawTokens == {"", " ", "tok"}

\* getSingleQueryValue: "" stands for undefined.
getSingleQueryValue(raw) == trim(raw)

\* What validateChallenge can answer: state ("" when absent) and isValid
\* ("true", "false", or "undefined" when absent).
ValidateResults ==
  {[state |-> "CHALLENGE_SUCCEEDED", isValid |-> "true"],
   [state |-> "", isValid |-> "true"],
   [state |-> "challenge_failed", isValid |-> "false"],
   [state |-> "", isValid |-> "false"],
   [state |-> "CHALLENGE_SUCCEEDED", isValid |-> "false"],
   [state |-> "BLOCK", isValid |-> "true"],
   [state |-> "SOMETHING_NEW", isValid |-> "undefined"]}

ThrownValidate == [state |-> "THROW", isValid |-> "none"]

mapValidateState_NeverValid(state, isValid) ==
  [outcome |-> "FAILED", reason |-> "authsignal_validation_failed"]

mapValidateState_FailureFirst(state, isValid) ==
  LET normalized == toUpperCase(state) IN
  IF normalized /= "" /\ normalized \in FAILED_STATES
  THEN [outcome |-> "FAILED", reason |-> failureReasonOf(normalized)]
  ELSE IF isValid = "true" \/ (normalized /= "" /\ normalized \in SUCCESS_STATES)
    THEN [outcome |-> "SUCCESS", reason |-> ""]
  ELSE [outcome |-> "FAILED", reason |-> "authsignal_validation_failed"]

mapValidateState(state, isValid) ==
  LET normalized == toUpperCase(state) IN
  IF isValid = "true" \/ (normalized /= "" /\ normalized \in SUCCESS_STATES)
  THEN [outcome |-> "SUCCESS", reason |-> ""]
  ELSE IF normalized /= "" /\ normalized \in FAILED_STATES
    THEN [outcome |-> "FAILED", reason |-> failureReasonOf(normalized)]
  ELSE [outcome |-> "FAILED", reason |-> "authsignal_validation_failed"]

\* mapTrackState of logger.ts is mapTrackState of app.ts.  No idempotencyKey is
\* read from a trackAction result in this variant.
CbTrackResults(n) == {t \in TrackResults(n) : t.idempotencyKey = t.url}

\* The answer of authenticate for a record read from the store.
existingResponse_IgnoresOps(ops, flow) ==
  IF flow.status = "PENDING" THEN asgardeoIncomplete(flow.redirectUrl)
  ELSE completedResponse(flow)

existingResponse(ops, flow) ==
  IF flow.status = "PENDING"
  THEN IF ~canRedirect(ops) THEN asgardeoError("REDIRECT_NOT_ALLOWED")
       ELSE asgardeoIncomplete(flow.redirectUrl)
  ELSE completedResponse(flow)

\* ------------------------------- authenticate of the callback variant ----
\* The handler up to its first await: schema validation.  The authenticate
\* calls of this variant are taken one after the other, as the identity
\* platform makes them.
CbStart(r) ==
  /\ \A r2 \in Slots : req[r2].pc = "idle"
  /\ r = 1
  /\ calls < MaxCalls
  /\ calls' = calls + 1
  /\ \E f \in FlowIds, valid \in BOOLEAN :
       LET q == [IdleReq EXCEPT !.flowId = f, !.prior = seen[f]] IN
       IF ~valid THEN /\ last' = Ended(q, "done", invalidRequest)
                      /\ UNCHANGED req
       ELSE /\ req' = [req EXCEPT ![r] = [q EXCEPT !.pc = "cbGet1"]]
            /\ UNCHANGED last
  /\ UNCHANGED <<now, flows, locks, trackCalls, restarted, seen, released, http, cb, probe, arrived, user>>

\* A record was read: it is answered from the record.
CbFound(r, flow) ==
  LET q == req[r] IN
  \E ops \in IF flow.status = "PENDING" THEN AllowedOperations ELSE {q.ops} :
    LET q1 == [q EXCEPT !.ops = ops, !.flow = flow] IN
    /\ req' = [req EXCEPT ![r] = Finish(q, existingResponse(ops, flow))]
    /\ Answers(q1, existingResponse(ops, flow))

\* A store.get of the handler: pc is the await, absent what follows when no
\* record is read.
CbGet(r, absent) ==
  LET q == req[r]  f == q.flowId  flow == storeGet(flows, f, now) IN
  /\ \/ /\ GetEffect(f)
        /\ IF flow /= NoFlow THEN CbFound(r, flow) ELSE absent
     \/ /\ req' = [req EXCEPT ![r] = Throw(q)]
        /\ Throws(q)
        /\ UNCHANGED <<flows, restarted>>
  /\ UNCHANGED <<now, locks, calls, trackCalls, released, http, cb, probe, arrived, user>>

\* const existingFlow = await store.get(flowId)
CbGet1(r) ==
  /\ req[r].pc = "cbGet1"
  /\ CbGet(r,
        /\ req' = [req EXCEPT ![r] = [req[r] EXCEPT !.pc = "cbAcquire"]]
        /\ UNCHANGED <<last, seen>>)

\* const lockOwner = await store.acquireLock(flowId, LOCK_TTL_MS)
CbAcquire(r) ==
  LET q == req[r]  f == q.flowId  existing == locks[f] IN
  /\ q.pc = "cbAcquire"
  /\ \/ /\ lockDenies(existing, now)
        /\ req' = [req EXCEPT ![r] = [q EXCEPT !.denied = TRUE, !.pc = "cbGet2"]]
        /\ UNCHANGED <<locks, last, seen>>
     \/ /\ ~lockDenies(existing, now)
        /\ locks' = [locks EXCEPT ![f] =
                       [owner |-> randomUUID, expiresAt |-> now + LOCK_TTL_MS]]
        /\ req' = [req EXCEPT ![r] = [q EXCEPT !.lockOwner = randomUUID, !.pc = "cbGet3"]]
        /\ UNCHANGED <<last, seen>>
     \/ /\ req' = [req EXCEPT ![r] = Throw(q)]
        /\ Throws(q)
        /\ UNCHANGED locks
  /\ UNCHANGED <<now, flows, calls, trackCalls, restarted, released, http, cb, probe, arrived, user>>

\* const lockRaceFlow = await store.get(flowId), after the lock was denied
CbGet2(r) ==
  /\ req[r].pc = "cbGet2"
  /\ CbGet(r,
        /\ req' = [req EXCEPT ![r] = Finish(req[r], asgardeoError("FLOW_LOCKED"))]
        /\ Answers(req[r], asgardeoError("FLOW_LOCKED")))

\* const doubleCheckFlow = await store.get(flowId), holding the lock; then
\* resolveUserId
CbGet3(r) ==
  /\ req[r].pc = "cbGet3"
  /\ CbGet(r,
        \E userId \in UserIds :
          LET q1 == [req[r] EXCEPT !.userId = userId] IN
          IF userId = NoUser
          THEN /\ req' = [req EXCEPT ![r] = Finish(q1, asgardeoError("MISSING_USER"))]
               /\ Answers(q1, asgardeoError("MISSING_USER"))
          ELSE /\ req' = [req EXCEPT ![r] = [q1 EXCEPT !.pc = "cbTrack"]]
               /\ UNCHANGED <<last, seen>>)

\* The answer the handler gives right after trackAction, NoResp when it goes on
\* to save a record first.
cbTrackResponse(tres, ops) ==
  LET mapped == mapTrackState(tres.state, tres) IN
  IF mapped.kind = "pending"
  THEN IF ~canRedirect(ops) THEN asgardeoError("REDIRECT_NOT_ALLOWED") ELSE NoResp
  ELSE IF mapped.kind \in {"success", "failed"} THEN NoResp
  ELSE asgardeoError("AUTHSIGNAL_ERROR")

\* const trackResult = await authsignal.trackAction(...)
CbTrack(r) ==
  LET q == req[r]  f == q.flowId IN
  /\ q.pc = "cbTrack"
  /\ trackCalls' = Bump(trackCalls, f)
  /\ \/ \E tres \in CbTrackResults(trackCalls[f] + 1) :
        \E ops \in IF mapTrackState(tres.state, tres).kind = "pending"
                   THEN AllowedOperations ELSE {q.ops} :
          LET q1 == [q EXCEPT !.tr = tres, !.ops = ops]
              rsp == cbTrackResponse(tres, ops) IN
          IF rsp = NoResp
          THEN /\ req' = [req EXCEPT ![r] = [q1 EXCEPT !.pc = "cbSave"]]
               /\ UNCHANGED <<last, seen>>
          ELSE /\ req' = [req EXCEPT ![r] = Finish(q1, rsp)]
               /\ Answers(q1, rsp)
     \/ /\ req' = [req EXCEPT ![r] = Throw([q EXCEPT !.tr = ThrownTrack])]
        /\ UNCHANGED <<last, seen>>
  /\ UNCHANGED <<now, flows, locks, calls, restarted, released, http, cb, probe, arrived, user>>

\* The record the initiation persists for a mapped trackAction result.
cbInitRecord(q, resumeUrl) ==
  LET mapped == mapTrackState(q.tr.state, q.tr) IN
  IF mapped.kind = "pending"
  THEN CallbackPendingFlowRecord(q.userId, resumeUrl, mapped.redirectUrl)
  ELSE IF mapped.kind = "success"
    THEN CallbackCompletedFlowRecord(q.userId, resumeUrl, "SUCCESS", "")
  ELSE CallbackCompletedFlowRecord(q.userId, resumeUrl, "FAILED", mapped.reason)

\* await store.save(...) of the initiation, then the answer.  The tenant hint
\* of the request is read here, where the resume URL built from it is used.
CbSave(r) ==
  LET q == req[r]  f == q.flowId IN
  /\ q.pc = "cbSave"
  /\ \/ \E tenantHint \in TenantHints :
          /\ flows' = storeSave(flows, f,
                        cbInitRecord(q, buildResumeUrl(f, tenantHint)), now)
          /\ req' = [req EXCEPT ![r] = Finish(q, initResponse(q))]
          /\ Answers(q, initResponse(q))
     \/ /\ req' = [req EXCEPT ![r] = Throw(q)]
        /\ UNCHANGED <<flows, last, seen>>
  /\ UNCHANGED <<now, locks, calls, trackCalls, restarted, released, http, cb, probe, arrived, user>>

\* ---------------------------------------------------- GET /api/callback ----
\* The callback invocation k answers rsp.
CallbackAnswers(c, k, rsp) ==
  cb' = [cb EXCEPT ![c] = IdleCb,
                   ![CbLast] = [k EXCEPT !.pc = "done", !.resp = rsp, !.at = now,
                                         !.alone = \A r \in Slots : req[r].pc = "idle"]]

\* The handler up to its first await: the flowId query parameter.
CallbackStart(c) ==
  /\ cb[c].pc = "idle"
  /\ \A c2 \in CbSlots : c2 < c => cb[c2].pc /= "idle"
  /\ calls < MaxCalls
  /\ calls' = calls + 1
  /\ \E raw \in RawFlowIds :
       LET flowId == getSingleQueryValue(raw) IN
       IF flowId = ""
       THEN CallbackAnswers(c, IdleCb, callbackPage(400, "Missing flow ID"))
       ELSE cb' = [cb EXCEPT ![c] = [IdleCb EXCEPT !.pc = "get", !.flowId = flowId]]
  /\ UNCHANGED <<now, flows, locks, req, trackCalls, restarted, seen, last,
                 released, http, probe, arrived, user>>

\* const flow = await store.get(flowId), then the token query parameter.  An
\* exception here finds flowForFailure undefined in the catch.
CallbackGet(c) ==
  LET k == cb[c]  f == k.flowId  flow == storeGet(flows, f, now) IN
  /\ k.pc = "get"
  /\ \/ /\ GetEffect(f)
        /\ IF flow = NoFlow
           THEN CallbackAnswers(c, k, callbackPage(404, "Flow not found"))
           ELSE IF flow.status = "COMPLETED"
           THEN CallbackAnswers(c, [k EXCEPT !.flow = flow],
                                callbackRedirect(flow.resumeUrl))
           ELSE \E raw \in RawTokens :
                  LET token == getSingleQueryValue(raw) IN
                  cb' = [cb EXCEPT ![c] =
                           [k EXCEPT !.flow = flow, !.token = token,
                                     !.pc = IF token = "" THEN "save"
                                            ELSE "validate"]]
     \/ /\ CallbackAnswers(c, [k EXCEPT !.caught = TRUE],
                           callbackPage(500, "Authentication error"))
        /\ UNCHANGED <<flows, restarted>>
  /\ UNCHANGED <<now, locks, req, calls, trackCalls, seen, last, released, http, probe, arrived, user>>

\* const validationResult = await authsignal.validateChallenge(token)
CallbackValidate(c) ==
  LET k == [cb[c] EXCEPT !.validates = @ + 1] IN
  /\ k.pc = "validate"
  /\ \/ \E result \in ValidateResults :
          cb' = [cb EXCEPT ![c] = [k EXCEPT !.result = result, !.pc = "save"]]
     \/ cb' = [cb EXCEPT ![c] =
                 [k EXCEPT !.result = ThrownValidate, !.caught = TRUE,
                           !.pc = "saveFailure"]]
  /\ UNCHANGED <<now, flows, locks, req, calls, trackCalls, restarted, seen, last,
                 released, http, probe, arrived, user>>

\* The record the try block saves: for a missing token, or from the mapped
\* validation result.
callbackRecord_AsValidated(k) ==
  LET mapped == mapValidateState(k.result.state, k.result.isValid) IN
  callbackToCompletedFlow(k.flow, mapped.outcome, mapped.reason)

callbackRecord(k) ==
  IF k.token = ""
  THEN callbackToCompletedFlow(k.flow, "FAILED", "callback_token_missing")
  ELSE LET mapped == mapValidateState(k.result.state, k.result.isValid) IN
       callbackToCompletedFlow(k.flow, mapped.outcome, mapped.reason)

\* await store.save(toCompletedFlow(...)); response.redirect(302, resumeUrl)
CallbackSave(c) ==
  LET k == cb[c] IN
  /\ k.pc = "save"
  /\ \/ /\ flows' = storeSave(flows, k.flowId, callbackRecord(k), now)
        /\ CallbackAnswers(c, k, callbackRedirect(k.flow.resumeUrl))
     \/ /\ cb' = [cb EXCEPT ![c] = [k EXCEPT !.caught = TRUE, !.pc = "saveFailure"]]
        /\ UNCHANGED flows
  /\ UNCHANGED <<now, locks, req, calls, trackCalls, restarted, seen, last,
                 released, http, probe, arrived, user>>

\* catch with flowForFailure set: await store.save(toCompletedFlow(...,
\* "authsignal_validate_error")) and the redirect, or the 500 page when that
\* save throws too.
CallbackSaveFailure(c) ==
  LET k == cb[c] IN
  /\ k.pc = "saveFailure"
  /\ \/ /\ flows' = storeSave(flows, k.flowId,
                      callbackToCompletedFlow(k.flow, "FAILED",
                                              "authsignal_validate_error"), now)
        /\ CallbackAnswers(c, k, callbackRedirect(k.flow.resumeUrl))
     \/ /\ CallbackAnswers(c, k, callbackPage(500, "Authentication error"))
        /\ UNCHANGED flows
  /\ UNCHANGED <<now, locks, req, calls, trackCalls, restarted, seen, last,
                 released, http, probe, arrived, user>>

NextCallback ==
  \/ \E r \in Slots :
       \/ CbStart(r) \/ CbGet1(r) \/ CbAcquire(r) \/ CbGet2(r) \/ CbGet3(r)
       \/ CbTrack(r) \/ CbSave(r) \/ Release(r)
  \/ \E c \in CbSlots :
       \/ CallbackStart(c) \/ CallbackGet(c) \/ CallbackValidate(c)
       \/ CallbackSave(c) \/ CallbackSaveFailure(c)
  \/ Tick

SpecCallback == Init /\ [][NextCallback]_vars

\* The same with authenticate calls that overlap: a call is taken while
\* another is still in progress, as app.post admits them.  Callback
\* invocations are taken one at a time here, and the clock makes one step,
\* which is the time a lock takes to expire.
CbStartOverlap(r) ==
  /\ req[r].pc = "idle"
  /\ \A r2 \in Slots : r2 < r => req[r2].pc /= "idle"
  /\ calls < MaxCalls
  /\ calls' = calls + 1
  /\ \E f \in FlowIds, valid \in BOOLEAN :
       LET q == [IdleReq EXCEPT !.flowId = f, !.prior = seen[f]] IN
       IF ~valid THEN /\ last' = Ended(q, "done", invalidRequest)
                      /\ UNCHANGED req
       ELSE /\ req' = [req EXCEPT ![r] = [q EXCEPT !.pc = "cbGet1"]]
            /\ UNCHANGED last
  /\ UNCHANGED <<now, flows, locks, trackCalls, restarted, seen, released, http, cb, probe, arrived, user>>

\* Time passes, once.
TickOnce == now < TickMs /\ Tick

NextOverlap ==
  \/ \E r \in Slots :
       \/ CbStartOverlap(r) \/ CbGet1(r) \/ CbAcquire(r) \/ CbGet2(r) \/ CbGet3(r)
       \/ CbTrack(r) \/ CbSave(r) \/ Release(r)
  \/ \E c \in {1} :
       \/ CallbackStart(c) \/ CallbackGet(c) \/ CallbackValidate(c)
       \/ CallbackSave(c) \/ CallbackSaveFailure(c)
  \/ TickOnce

SpecOverlap == Init /\ [][NextOverlap]_vars

\* The behaviours in which the platform keeps polling: LiveCalls calls arrive
\* whatever the store holds, and after them a call arrives whenever the record
\* of the flow is PENDING, without end.  Every await of a handler in
\* progress completes (the event loop runs each continuation once its I/O is
\* done), and a poll that passes validation keeps arriving.  No time passes
\* between the calls, so every call comes before the flow TTL has elapsed.
StartLive(r) ==
  /\ req[r].pc = "idle"
  /\ \A r2 \in Slots : r2 < r => req[r2].pc /= "idle"
  /\ calls' = IF calls < LiveCalls THEN calls + 1 ELSE calls
  /\ \E f \in FlowIds, valid \in BOOLEAN, secret \in Secrets :
       LET q == [IdleReq EXCEPT !.flowId = f, !.prior = seen[f]] IN
       /\ calls < LiveCalls \/ storeGet(flows, f, now).status = "PENDING"
       /\ IF ~valid THEN /\ last' = Ended(q, "done", invalidRequest)
                         /\ UNCHANGED req
          ELSE IF resolverThrows(secret)
            THEN /\ last' = Ended(q, "escaped", NoResp)
                 /\ UNCHANGED req
          ELSE /\ req' = [req EXCEPT ![r] = [q EXCEPT !.pc = "get1"]]
               /\ UNCHANGED last
  /\ arrived' = IF req'[r].pc = "get1" THEN now ELSE arrived
  /\ UNCHANGED <<now, flows, locks, trackCalls, restarted, seen>>
  /\ UNCHANGED <<released, http, cb, probe, user>>

\* A poll that passes validation and reaches the handler's first await.
PollArrives == \E r \in Slots : StartLive(r) /\ req'[r].pc = "get1"

NextLive ==
  \/ \E r \in Slots :
       \/ StartLive(r) \/ Get1(r) \/ Acquire(r) \/ Get2(r) \/ Get3(r) \/ Track(r)
       \/ SaveInit(r) \/ GetAction(r) \/ SaveCompleted(r) \/ SavePending(r)
       \/ Release(r)

HandlerProgress ==
  \A r \in Slots :
    /\ WF_vars(Get1(r)) /\ WF_vars(Acquire(r)) /\ WF_vars(Get2(r))
    /\ WF_vars(Get3(r)) /\ WF_vars(Track(r)) /\ WF_vars(SaveInit(r))
    /\ WF_vars(GetAction(r)) /\ WF_vars(SaveCompleted(r))
    /\ WF_vars(SavePending(r)) /\ WF_vars(Release(r))

SpecLive ==
  Init /\ [][NextLive]_vars /\ HandlerProgress /\ WF_vars(PollArrives)

\* ============================================================ claims ====
\* ---- C1 ----
\* C1, as stated: two authenticate calls for one unseen flowId that overlap
\* (the second arrived before any answer was given) invoke trackAction exactly
\* once in total, also when the first was answered without an exception after
\* its trackAction call.
C1_ExactlyOnce ==
  \A r \in Slots :
    ( /\ calls = 2 /\ now = 0
      /\ req[r].pc = "saveInit" /\ ~req[r].prior.any
      /\ last.pc = "done" /\ ~last.thrown /\ last.tr /= NoTrack )
    => trackCalls[req[r].flowId] = 1

\* C1, amended: as long as every trackAction result of a flowId was persisted,
\* no lock expired under its holder and no record was dropped on expiry,
\* trackAction has been invoked at most once for the flowId, under any
\* interleaving, and exactly once when an INCOMPLETE, SUCCESS or FAILED answer
\* was given.
C1_OncePerPersistedFlow ==
  \A f \in FlowIds :
    ~restarted[f] =>
      /\ trackCalls[f] <= 1
      /\ (seen[f].url /= 0 \/ seen[f].term /= NoResp) => trackCalls[f] = 1

\* Two overlapping first callers: the one denied the lock was answered
\* INCOMPLETE from the record of the other, after a single trackAction call.
C1_Witness ==
  /\ last.pc = "done" /\ last.denied /\ ~last.prior.any
  /\ last.resp.actionStatus = "INCOMPLETE"
  /\ trackCalls[last.flowId] = 1 /\ ~restarted[last.flowId]

\* ---- C2 ----
\* C2, as stated: a first caller that overlapped another and was denied the
\* lock is answered INCOMPLETE, SUCCESS or FAILED (its request valid, redirect
\* permitted, no exception raised).
C2_AllAnswered ==
  ( /\ last.pc = "done" /\ last.resp.http = 200
    /\ last.denied /\ ~last.prior.any /\ ~last.thrown
    /\ last.ops /= <<"other">> )
  => last.resp.actionStatus \in {"INCOMPLETE", "SUCCESS", "FAILED"}

\* C2, amended: a caller that was denied the lock is answered INCOMPLETE,
\* SUCCESS or FAILED from the record it then read, or ERROR FLOW_LOCKED when
\* no record was visible yet, REDIRECT_NOT_ALLOWED or INTERNAL_ERROR; and every
\* INCOMPLETE answer of a flow that was not restarted carries the URL of the
\* first one.
C2_ConsistentAnswers ==
  /\ (last.pc = "done" /\ last.denied) =>
       /\ \/ last.resp.actionStatus \in {"INCOMPLETE", "SUCCESS", "FAILED"}
          \/ last.resp \in {asgardeoError("FLOW_LOCKED"),
                            asgardeoError("REDIRECT_NOT_ALLOWED"),
                            asgardeoError("INTERNAL_ERROR")}
       /\ (last.resp = asgardeoError("FLOW_LOCKED")) =>
            (last.flow = NoFlow /\ ~last.thrown)
       /\ (last.flow = NoFlow /\ ~last.thrown) =>
            last.resp = asgardeoError("FLOW_LOCKED")
  /\ (last.resp.actionStatus = "INCOMPLETE" /\ ~restarted[last.flowId]) =>
       last.resp.url = seen[last.flowId].url

\* A first caller was denied the lock and answered FLOW_LOCKED while the
\* holder had called trackAction and not yet saved the record.
C2_Witness ==
  /\ last.pc = "done" /\ last.denied /\ ~last.prior.any
  /\ last.resp = asgardeoError("FLOW_LOCKED")
  /\ \E r \in Slots : req[r].pc = "saveInit"

\* ---- C3 ----
\* C3, as stated: a call that started after a SUCCESS or FAILED answer was
\* given for its flowId gets that same answer (its request valid, redirect
\* permitted, no exception raised, the flow not restarted).
C3_TerminalSticks ==
  ( /\ last.pc = "done" /\ last.resp.http = 200
    /\ last.prior.term /= NoResp /\ ~last.thrown
    /\ ~restarted[last.flowId] /\ last.ops /= <<"other">> )
  => last.resp = last.prior.term

\* ---- C4 ----
\* C4, as stated: no step takes the stored record of a flowId from COMPLETED
\* to PENDING (while the flow is not restarted).
C4_NeverBackToPending ==
  [][\A f \in FlowIds :
       (flows[f].flow.status = "COMPLETED" /\ ~restarted'[f])
       => flows'[f].flow.status /= "PENDING"]_vars

C6_AlwaysIncomplete ==
  (last.pc = "done" /\ last.ga = "THROW" /\ ~last.thrown)
  => last.resp.actionStatus = "INCOMPLETE"

\* C6, amended: when getAction throws for a PENDING flow, the call writes its
\* PENDING record back and answers INCOMPLETE with the stored URL, or ERROR
\* REDIRECT_NOT_ALLOWED when the request excludes redirect; when that write
\* throws, it leaves the store alone and answers ERROR INTERNAL_ERROR.  It
\* never answers FAILED or SUCCESS.
C6_GetActionFailure ==
  [][\A r \in Slots :
       (req[r].pc = "savePending" /\ req[r].ga = "THROW" /\ req'[r] /= req[r])
       => \/ /\ req[r].flow.status = "PENDING"
             /\ flows'[req[r].flowId].flow = req[r].flow
             /\ last'.ga = "THROW"
             /\ last'.resp = IF last'.ops = <<"other">>
                             THEN asgardeoError("REDIRECT_NOT_ALLOWED")
                             ELSE asgardeoIncomplete(req[r].flow.redirectUrl)
          \/ /\ flows' = flows
             /\ \/ req'[r].thrown /\ req'[r].pc = "release"
                \/ /\ req'[r].pc = "idle" /\ last'.thrown
                   /\ last'.resp = asgardeoError("INTERNAL_ERROR")]_vars

\* A call whose getAction threw was answered INCOMPLETE and the record is
\* PENDING.
C6_Witness ==
  /\ last.pc = "done" /\ last.ga = "THROW"
  /\ last.resp.actionStatus = "INCOMPLETE"
  /\ flows[last.flowId].flow.status = "PENDING"

\* ---- C7 ----
\* C7: a store.get that finds a record whose TTL has elapsed drops it and the
\* call goes on as for a flowId never seen: the first read leads to
\* acquireLock, the read under the lock to resolveUserId and trackAction.
C7_ExpiredIsUnseen ==
  [][\A r \in Slots :
       ( /\ req[r].pc \in {"get1", "get3"}
         /\ flows[req[r].flowId].flow /= NoFlow
         /\ flows[req[r].flowId].expiresAt < now
         /\ req'[r] /= req[r] )
       => \/ /\ flows'[req[r].flowId] = NoStored
             /\ IF req[r].pc = "get1" THEN req'[r].pc = "acquire"
                ELSE \/ req'[r].pc = "track"
                     \/ /\ req'[r].pc = "release"
                        /\ last'.resp = asgardeoError("MISSING_USER")
          \/ /\ flows' = flows
             /\ \/ req'[r].thrown /\ req'[r].pc = "release"
                \/ req'[r].pc = "idle" /\ last'.thrown]_vars

\* A call that started after an INCOMPLETE answer, once the record's TTL had
\* elapsed, invoked trackAction again and was answered with the new URL.
C7_Witness ==
  /\ last.pc = "done" /\ last.prior.url = 1 /\ last.tr /= NoTrack
  /\ last.resp = asgardeoIncomplete(2)
  /\ now > ttlSeconds * 1000

\* ---- C8 ----
\* C8: an INCOMPLETE answer is given only to a request whose allowedOperations
\* is absent or lists redirect; a request whose allowedOperations lacks
\* redirect is answered ERROR REDIRECT_NOT_ALLOWED wherever the handler gets
\* to reading them.
C8_RedirectOnlyWhenAllowed ==
  /\ (last.resp.actionStatus = "INCOMPLETE") =>
       \/ last.ops = NoOps
       \/ \E i \in 1..Len(last.ops) : last.ops[i] = "redirect"
  /\ (last.pc = "done" /\ last.ops = <<"other">>) =>
       last.resp = asgardeoError("REDIRECT_NOT_ALLOWED")

\* A re-entry for a PENDING flow whose request excludes redirect was answered
\* REDIRECT_NOT_ALLOWED.
C8_Witness ==
  /\ last.pc = "done" /\ last.ops = <<"other">>
  /\ last.flow.status = "PENDING"
  /\ last.resp = asgardeoError("REDIRECT_NOT_ALLOWED")

\* ---- C9 ----
\* C9, as stated: no exception raised while a schema-valid request is
\* processed leaves the handler: every such call ends with an answer.
C9_NoExceptionEscapes == last.pc /= "escaped"

\* ---- C10 ----
\* C10: the invocations holding a token hold different ones, so at most one
\* owns the unexpired lock of a flowId; acquireLock, finding an unexpired
\* lock, returns no token and leaves the lock as it is, and otherwise stores
\* and returns a token nobody holds, expiring LOCK_TTL_MS from now.
C10_LockExclusive ==
  /\ [](\A r1, r2 \in Slots :
          (r1 /= r2 /\ req[r1].lockOwner /= 0) =>
            req[r1].lockOwner /= req[r2].lockOwner)
  /\ [][\A r \in Slots :
          (req[r].pc = "acquire" /\ req'[r] /= req[r] /\ req'[r].pc /= "idle")
          => IF /\ locks[req[r].flowId] /= NoLock
                /\ locks[req[r].flowId].expiresAt > now
             THEN /\ req'[r].lockOwner = 0 /\ req'[r].pc = "get2"
                  /\ locks' = locks
             ELSE /\ req'[r].lockOwner /= 0
                  /\ req'[r].lockOwner /= locks[req[r].flowId].owner
                  /\ \A r2 \in Slots : req[r2].lockOwner /= req'[r].lockOwner
                  /\ locks'[req[r].flowId] =
                       [owner |-> req'[r].lockOwner,
                        expiresAt |-> now + LOCK_TTL_MS]]_vars

\* One invocation owns the unexpired lock and another was denied it.
C10_Witness ==
  \E r1, r2 \in Slots :
    /\ req[r1].lockOwner /= 0
    /\ locks[req[r1].flowId] = [owner |-> req[r1].lockOwner,
                                expiresAt |-> now + LOCK_TTL_MS]
    /\ req[r2].pc = "get2" /\ req[r2].denied

\* ---- C11 ----
\* C11: releaseLock(flowId, owner) deletes the lock of flowId when the lock
\* stored has that owner token, and otherwise (another owner's lock, no lock)
\* leaves the locks as they are; either way the call returns.
C11_ReleaseOnlyOwn ==
  [][\A r \in Slots :
       (req[r].pc = "release" /\ req'[r].pc = "idle")
       => IF /\ locks[req[r].flowId] /= NoLock
             /\ locks[req[r].flowId].owner = req[r].lockOwner
          THEN locks' = [locks EXCEPT ![req[r].flowId] = NoLock]
          ELSE locks' = locks]_vars

\* A former holder released after its lock had expired and another caller had
\* acquired it: the newer lock is still there.
C11_Witness ==
  /\ released.before /= NoLock
  /\ released.owner /= released.before.owner
  /\ \E f \in FlowIds : locks[f] = released.before

\* ---- C12 ----
\* C12, as stated: when an invocation that obtained the lock has completed,
\* the lock of its flowId is not held by its owner token.
C12_ReleasedOnCompletion ==
  [][\A r \in Slots :
       (req[r].pc = "release" /\ req'[r].pc = "idle")
       => locks'[req[r].flowId].owner /= req[r].lockOwner]_vars

\* C12, amended: an invocation holding a token leaves the critical section,
\* on every path (record found under the lock, missing user, each trackAction
\* outcome, exception), only through releaseLock called with its own token;
\* after that call the lock is not held by that token, unless releaseLock
\* itself threw, which is swallowed and leaves the locks as they were.
C12_AlwaysCallsRelease ==
  [][\A r \in Slots :
       (req[r].lockOwner /= 0 /\ req'[r] /= req[r])
       => \/ /\ req'[r].lockOwner = req[r].lockOwner
             /\ req'[r].pc \in {"track", "saveInit", "getAction", "saveCompleted",
                                "savePending", "release"}
             /\ (req'[r].thrown \/ seen' /= seen \/ last' /= last)
                  => req'[r].pc = "release"
             /\ locks' = locks
          \/ /\ req[r].pc = "release" /\ req'[r].pc = "idle"
             /\ \/ locks' = locks
                \/ /\ locks[req[r].flowId].owner = req[r].lockOwner
                   /\ locks'[req[r].flowId] = NoLock
             /\ \/ locks'[req[r].flowId].owner /= req[r].lockOwner
                \/ locks' = locks]_vars

\* An invocation whose trackAction threw inside the critical section has
\* completed with INTERNAL_ERROR and the lock is gone.
C12_Witness ==
  /\ last.pc = "done" /\ last.thrown /\ last.tr = ThrownTrack
  /\ last.resp = asgardeoError("INTERNAL_ERROR")
  /\ locks[last.flowId] = NoLock
  /\ \A r \in Slots : req[r].pc = "idle"

\* ---- C13 ----
\* C13, as stated: an initiating call whose trackAction answered a state of
\* the pending vocabulary is answered INCOMPLETE (its request permitting
\* redirect, no exception raised).
C13_PendingStateIncomplete ==
  ( /\ last.pc = "done" /\ ~last.thrown
    /\ last.tr.state = "CHALLENGE_REQUIRED"
    /\ last.ops /= <<"other">> )
  => last.resp.actionStatus = "INCOMPLETE"

\* C13, amended: at initiation a success state (any letter case) saves a
\* COMPLETED/SUCCESS record and answers SUCCESS; a failure state saves a
\* COMPLETED/FAILED record with reason authsignal_<lowercased state> and
\* answers FAILED with it; a pending state that comes with a url and an
\* idempotencyKey, for a request that permits redirect, saves a PENDING record
\* with that url and key and answers INCOMPLETE with that url.  A pending state
\* without url or without idempotencyKey answers ERROR AUTHSIGNAL_ERROR and
\* saves nothing.
C13_InitiateMapping ==
  /\ []( (last.pc = "done" /\ ~last.thrown /\ last.tr /= NoTrack) =>
           /\ (last.tr.state = "allow") => last.resp = asgardeoSuccess
           /\ (last.tr.state = "BLOCK") =>
                last.resp = asgardeoFailure("authsignal_block")
           /\ (last.tr.state = "CHALLENGE_REQUIRED") =>
                last.resp =
                  IF last.tr.url = 0 \/ last.tr.idempotencyKey = 0
                  THEN asgardeoError("AUTHSIGNAL_ERROR")
                  ELSE IF last.ops = <<"other">>
                  THEN asgardeoError("REDIRECT_NOT_ALLOWED")
                  ELSE asgardeoIncomplete(last.tr.url) )
  /\ [][\A r \in Slots :
          LET q == req[r]  stored == flows'[q.flowId].flow IN
          /\ (q.pc = "saveInit" /\ req'[r] /= q /\ ~req'[r].thrown) =>
               /\ stored.userId = q.userId
               /\ (q.tr.state = "allow") =>
                    /\ stored.status = "COMPLETED" /\ stored.outcome = "SUCCESS"
                    /\ stored.failureReason = ""
               /\ (q.tr.state = "BLOCK") =>
                    /\ stored.status = "COMPLETED" /\ stored.outcome = "FAILED"
                    /\ stored.failureReason = "authsignal_block"
               /\ (q.tr.state = "CHALLENGE_REQUIRED") =>
                    /\ stored.status = "PENDING"
                    /\ stored.redirectUrl = q.tr.url /\ q.tr.url /= 0
                    /\ stored.idempotencyKey = q.tr.idempotencyKey
                    /\ q.tr.idempotencyKey /= 0
          /\ (q.pc = "track" /\ req'[r] /= q /\ req'[r].pc /= "saveInit") =>
               flows' = flows]_vars

\* A flow went from no record to COMPLETED on its first trackAction call (state
\* "allow"), with no INCOMPLETE answer before.
C13_Witness ==
  /\ last.pc = "done" /\ last.tr.state = "allow" /\ last.resp = asgardeoSuccess
  /\ flows[last.flowId].flow.status = "COMPLETED"
  /\ flows[last.flowId].flow.outcome = "SUCCESS"
  /\ trackCalls[last.flowId] = 1 /\ seen[last.flowId].url = 0

C15_UnknownNeverError ==
  ( /\ last.pc = "done" /\ ~last.thrown /\ last.ops /= <<"other">>
    /\ (last.tr.state = "SOMETHING_NEW" \/ last.ga = "SOMETHING_NEW") )
  => last.resp.actionStatus \notin {"ERROR", "FAILED"}

\* ---- C16 ----
\* C16: after acquireLock was denied the call reads the store again.  A PENDING
\* record goes to resolvePendingFlow with that record, a COMPLETED record is
\* answered with its stored outcome, as on the first read; with no record the
\* answer is ERROR FLOW_LOCKED on HTTP 200, no external operation having been
\* called and nothing written to the store.
C16_LockDeniedReread ==
  [][\A r \in Slots :
       LET q == req[r]  stored == flows[q.flowId] IN
       (q.pc = "get2" /\ req'[r] /= q)
       => /\ trackCalls' = trackCalls
          /\ \/ /\ req'[r].pc = "idle" /\ flows' = flows /\ last'.thrown
                /\ last'.resp = asgardeoError("INTERNAL_ERROR")
             \/ IF stored.flow = NoFlow \/ stored.expiresAt < now
                THEN /\ last'.resp = [http |-> 200, actionStatus |-> "ERROR",
                                      detail |-> "FLOW_LOCKED", url |-> 0]
                     /\ last'.tr = NoTrack /\ last'.ga = "" /\ ~last'.thrown
                     /\ flows'[q.flowId] = NoStored
                     /\ req'[r].pc = "idle"
                ELSE IF stored.flow.status = "PENDING"
                THEN /\ req'[r].pc = "getAction" /\ req'[r].flow = stored.flow
                     /\ flows' = flows /\ last' = last
                ELSE /\ req'[r].pc = "idle" /\ flows' = flows
                     /\ last'.flow = stored.flow /\ ~last'.thrown
                     /\ last'.resp =
                          IF stored.flow.outcome = "SUCCESS" THEN asgardeoSuccess
                          ELSE asgardeoFailure(stored.flow.failureReason)]_vars

\* A call that was denied the lock read a COMPLETED record on its second read
\* and was answered SUCCESS.
C16_Witness ==
  /\ last.pc = "done" /\ last.denied /\ ~last.thrown
  /\ last.flow.status = "COMPLETED" /\ last.resp = asgardeoSuccess
  /\ last.tr = NoTrack /\ last.ga = ""

\* ---- C17 ----
\* C17: a fetch that ends with a response of status 4xx other than 429 is the
\* last fetch of the call: request throws at once, without sleeping.
C17_ClientErrorIsFatal ==
  \A i \in 1..Len(http.log) :
    ( /\ http.log[i].kind = "response"
      /\ http.log[i].status >= 400 /\ http.log[i].status <= 499
      /\ http.log[i].status /= 429 )
    => /\ i = Len(http.log)
       /\ http.pc = "thrown"
       /\ Len(http.waited) = i - 1

\* The first fetch was answered 404 and request threw without a delay.
C17_Witness ==
  /\ http.pc = "thrown" /\ Len(http.log) = 1
  /\ http.log[1].kind = "response" /\ http.log[1].status = 404
  /\ http.waited = <<>>

\* ---- C18 ----
\* C18, as stated: every fetch that ends with a TypeError, an AbortError or a
\* response of status 429 or 5xx, and was made after fewer than MAX_RETRIES
\* retries, is followed by a sleep and another fetch, whatever the body.
C18_RetryableIsRetried ==
  \A i \in 1..Len(http.log) :
    ( /\ i <= 2
      /\ \/ http.log[i].kind \in {"TypeError", "AbortError"}
         \/ http.log[i].status = 429
         \/ http.log[i].status >= 500 )
    => \/ i < Len(http.log)
       \/ http.pc = "sleep" /\ http.attempt = i - 1
       \/ http.pc = "fetch" /\ http.attempt = i

\* ---- C19 ----
\* C19: a call of request makes at most 3 fetches, sleeps 150 ms before the
\* second and 300 ms before the third, and ends: it returns the parsed body of
\* an ok response or throws.
C19_BoundedAttempts ==
  /\ []( /\ Len(http.log) <= 3
         /\ http.attempt <= 2
         /\ http.waited = SubSeq(<<150, 300>>, 1, http.attempt)
         /\ (http.pc \in {"returned", "thrown"}) => Len(http.log) \in 1..3
         /\ (http.pc = "returned") =>
              /\ http.log[Len(http.log)].kind = "response"
              /\ http.log[Len(http.log)].status \in 200..299
              /\ http.log[Len(http.log)].body /= "text" )
  /\ (http.pc = "fetch") ~> (http.pc \in {"returned", "thrown"})

\* A call threw after three fetches, having slept 150 ms and 300 ms.
C19_Witness ==
  /\ http.pc = "thrown" /\ Len(http.log) = 3
  /\ http.waited = <<150, 300>>

\* ---- C20 ----
\* C20, as stated: a re-entry whose getAction threw, and which raised no
\* other exception, is not answered ERROR.
C20_ReentryNeverError ==
  (last.pc = "done" /\ last.ga = "THROW" /\ ~last.thrown)
  => last.resp.actionStatus /= "ERROR"

\* C20, amended: when trackAction throws, the call saves nothing, releases the
\* lock and answers ERROR INTERNAL_ERROR; when getAction throws on re-entry the
\* exception is not surfaced: the call goes on as for a state still pending,
\* and answers INCOMPLETE with the stored URL, or ERROR REDIRECT_NOT_ALLOWED
\* when its request excludes redirect.
C20_FailureByCallSite ==
  /\ []( /\ (last.pc = "done" /\ last.tr = ThrownTrack) =>
              (last.thrown /\ last.resp = asgardeoError("INTERNAL_ERROR"))
         /\ (last.pc = "done" /\ last.ga = "THROW" /\ ~last.thrown) =>
              last.resp = IF last.ops = <<"other">>
                          THEN asgardeoError("REDIRECT_NOT_ALLOWED")
                          ELSE asgardeoIncomplete(last.flow.redirectUrl) )
  /\ [][\A r \in Slots :
          /\ (req[r].tr = ThrownTrack /\ req'[r] /= req[r]) =>
               /\ flows' = flows /\ req'[r].pc = "idle"
               /\ last'.tr = ThrownTrack
          /\ (req[r].pc = "track" /\ req'[r].tr = ThrownTrack) =>
               (flows' = flows /\ req'[r].pc = "release" /\ req'[r].thrown)
          /\ (req[r].pc = "getAction" /\ req'[r].ga = "THROW") =>
               /\ req'[r].pc = "savePending" /\ ~req'[r].thrown
               /\ last' = last /\ flows' = flows]_vars

\* A call whose trackAction threw was answered INTERNAL_ERROR and no record
\* exists.
C20_Witness ==
  /\ last.pc = "done" /\ last.tr = ThrownTrack
  /\ last.resp = asgardeoError("INTERNAL_ERROR")
  /\ flows[last.flowId] = NoStored /\ trackCalls[last.flowId] = 1

\* ---- C21 ----
\* C21, as stated: a callback for a PENDING flow that carries no token leaves
\* the record COMPLETED/FAILED with failureReason callback_token_missing,
\* answers 302 to the stored resume URL and never calls validateChallenge.
C21_TokenMissingMarksFailed ==
  [][\A c \in CbSlots :
       ( /\ cb[c].pc /= "idle" /\ cb'[c].pc = "idle"
         /\ cb'[CbLast].flow.status = "PENDING" /\ cb'[CbLast].token = "" ) =>
         /\ flows'[cb'[CbLast].flowId].flow =
              callbackToCompletedFlow(cb'[CbLast].flow, "FAILED",
                                      "callback_token_missing")
         /\ cb'[CbLast].resp = callbackRedirect(cb'[CbLast].flow.resumeUrl)
         /\ cb'[CbLast].validates = 0]_vars

\* C21, amended: such a callback never calls validateChallenge.  When its
\* store.save succeeds it leaves the record COMPLETED/FAILED with
\* callback_token_missing and answers 302 to the stored resume URL.  When that
\* save throws, the catch block saves COMPLETED/FAILED with
\* authsignal_validate_error and answers the same 302, or, when this save
\* throws too, answers 500 and leaves the store as it was.
C21_TokenMissing ==
  [][\A c \in CbSlots :
       ( /\ cb[c].pc /= "idle" /\ cb'[c].pc = "idle"
         /\ cb'[CbLast].flow.status = "PENDING" /\ cb'[CbLast].token = "" ) =>
         LET k == cb'[CbLast]  f == k.flowId IN
         /\ k.validates = 0 /\ k.result = NoValidate
         /\ IF ~k.caught
            THEN /\ flows'[f].flow =
                      callbackToCompletedFlow(k.flow, "FAILED", "callback_token_missing")
                 /\ k.resp = callbackRedirect(k.flow.resumeUrl)
            ELSE \/ /\ flows'[f].flow =
                         callbackToCompletedFlow(k.flow, "FAILED",
                                                 "authsignal_validate_error")
                    /\ k.resp = callbackRedirect(k.flow.resumeUrl)
                 \/ /\ flows' = flows
                    /\ k.resp = callbackPage(500, "Authentication error")]_vars

\* A callback without token found the flow PENDING, marked it FAILED with
\* callback_token_missing and redirected to the resume URL built with the
\* tenant hint of the initiation.
C21_Witness ==
  LET k == cb[CbLast] IN
  /\ k.pc = "done" /\ k.flow.status = "PENDING" /\ k.token = ""
  /\ k.validates = 0 /\ ~k.caught
  /\ k.resp = callbackRedirect(buildResumeUrl("f1", "t1"))
  /\ flows["f1"].flow.status = "COMPLETED"
  /\ flows["f1"].flow.outcome = "FAILED"
  /\ flows["f1"].flow.failureReason = "callback_token_missing"

\* ---- C22 ----
\* C22, as stated, for a validation that reports the token invalid: a callback
\* for a PENDING flow whose validateChallenge call answered isValid false, and
\* which raised no exception, leaves the record COMPLETED/FAILED with a
\* failure reason and answers 302 to the stored resume URL.
C22_InvalidTokenFails ==
  [][\A c \in CbSlots :
       ( /\ cb[c].pc /= "idle" /\ cb'[c].pc = "idle"
         /\ cb'[CbLast].flow.status = "PENDING"
         /\ cb'[CbLast].result.isValid = "false" /\ ~cb'[CbLast].caught ) =>
         LET k == cb'[CbLast]  f == k.flowId IN
         /\ k.resp = callbackRedirect(k.flow.resumeUrl)
         /\ flows'[f].flow.status = "COMPLETED"
         /\ flows'[f].flow.outcome = "FAILED"
         /\ flows'[f].flow.failureReason /= ""]_vars

C24_MissingOrUnknownFlow ==
  /\ []( LET k == cb[CbLast] IN
         k.pc = "done" =>
           /\ (k.flowId = "") <=> (k.resp = callbackPage(400, "Missing flow ID"))
           /\ (k.flowId /= "" /\ k.flow = NoFlow /\ ~k.caught)
                <=> (k.resp = callbackPage(404, "Flow not found"))
           /\ (k.resp.http \in {400, 404}) => k.validates = 0 )
  /\ [][( /\ cb'[CbLast] /= cb[CbLast]
          /\ cb'[CbLast].resp.http \in {400, 404} ) =>
          /\ locks' = locks
          /\ \A f \in FlowIds :
               /\ storeGet(flows', f, now) = storeGet(flows, f, now)
               /\ flows'[f] \in {flows[f], NoStored}
               /\ cb'[CbLast].resp.http = 404 => storeGet(flows', f, now) = NoFlow]_vars
  /\ [][\A c \in CbSlots :
          ( /\ cb[c].pc = "get" /\ cb'[c] /= cb[c]
            /\ \/ flows[cb[c].flowId] = NoStored
               \/ flows[cb[c].flowId].expiresAt < now ) =>
            /\ cb'[c].pc = "idle"
            /\ \/ cb'[CbLast].caught
               \/ cb'[CbLast].resp = callbackPage(404, "Flow not found")]_vars

\* A callback was answered 404 for a flowId whose record had expired.
C24_Witness ==
  LET k == cb[CbLast] IN
  /\ k.pc = "done" /\ k.flowId = "f1"
  /\ k.resp = callbackPage(404, "Flow not found")
  /\ seen["f1"].url /= 0 /\ restarted["f1"]
  /\ flows["f1"] = NoStored

\* ---- C25 ----
\* C25: save stores the record under its flowId with an expiry of the flow TTL
\* from the time of the call, in place of whatever was stored; a get returns
\* the record of the latest save as long as no more than the flow TTL has
\* passed since that save, and nothing afterwards; the record stored, if any,
\* is that of the latest save.
C25_SaveIsUpsert ==
  /\ [][(calls' /= calls /\ probe'.op = "save") =>
          /\ flows' = [flows EXCEPT !["f1"] =
                         [flow |-> probe'.saved,
                          expiresAt |-> now + ttlSeconds * 1000]]
          /\ probe'.savedAt = now
          /\ storeGet(flows', "f1", now) = probe'.saved]_vars
  /\ [][(calls' /= calls /\ probe'.op = "get") =>
          probe'.result =
            IF probe.saved /= NoFlow /\ now <= probe.savedAt + ttlSeconds * 1000
            THEN probe.saved ELSE NoFlow]_vars
  /\ [](flows["f1"] /= NoStored =>
          flows["f1"] = [flow |-> probe.saved,
                         expiresAt |-> probe.savedAt + ttlSeconds * 1000])

\* A record saved over an earlier one, after time had passed, was read back
\* exactly one flow TTL after the second save.
C25_Witness ==
  /\ probe.op = "get" /\ probe.result = probe.saved /\ probe.saved /= NoFlow
  /\ probe.savedAt = TickMs /\ now = probe.savedAt + ttlSeconds * 1000
  /\ calls >= 3

\* ---- C26 ----
\* C26: RedisFlowStore.get does not throw for a missing key or for a stored
\* value that JSON.parse rejects: it returns no record, and the authenticate
\* call that made the read goes on to acquireLock as for a new flow; a stored
\* value that is the JSON of a record is returned as that record.
C26_UndecodableIsAbsent ==
  /\ [](~probe.threw)
  /\ [][(calls' /= calls /\ probe'.op = "redis.get") =>
          IF probe'.payload \in {Nil, "", "{status:PENDING,outcome:", "<html>"}
          THEN /\ probe'.result = NoFlow
               /\ \E r \in Slots : req[r].pc = "idle" /\ req'[r].pc = "acquire"
               /\ last' = last
          ELSE /\ probe'.result \in StoreRecords
               /\ stringify(probe'.result) = probe'.payload
               /\ \A r \in Slots : req'[r].pc /= "acquire" \/ req[r].pc = "acquire"]_vars

\* The first read of an authenticate call found a truncated JSON text under
\* the key and the call went on to acquireLock.
C26_Witness ==
  /\ probe.op = "redis.get" /\ probe.payload = "{status:PENDING,outcome:"
  /\ probe.result = NoFlow /\ ~probe.threw
  /\ \E r \in Slots : req[r].pc = "acquire"

\* ---- C27 ----
\* C27: the read made under the lock decides: when it finds a record the call
\* does not call trackAction and keeps its token for releaseLock; a PENDING
\* record goes to resolvePendingFlow and a COMPLETED record is answered from
\* the record, as after the first read.  trackAction is only reached from a
\* read under the lock that found no record, and a call gives up its token
\* only in releaseLock.
C27_DoubleCheck ==
  /\ [][\A r \in Slots :
          LET f == req[r].flowId
              flow == IF flows[f].expiresAt < now THEN NoFlow ELSE flows[f].flow IN
          (req[r].pc = "get3" /\ req'[r] /= req[r] /\ flow /= NoFlow) =>
            /\ trackCalls' = trackCalls
            /\ req'[r].lockOwner = req[r].lockOwner /\ req[r].lockOwner /= 0
            /\ \/ req'[r].thrown /\ req'[r].pc = "release" /\ last' = last
               \/ /\ flow.status = "PENDING"
                  /\ req'[r].pc = "getAction" /\ req'[r].flow = flow
                  /\ last' = last
               \/ /\ flow.status = "COMPLETED"
                  /\ req'[r].pc = "release" /\ ~req'[r].thrown
                  /\ last'.pc = "done" /\ last'.flow = flow
                  /\ last'.resp = IF flow.outcome = "SUCCESS" THEN asgardeoSuccess
                                  ELSE asgardeoFailure(flow.failureReason)]_vars
  /\ [][\A r \in Slots :
          (req'[r].pc = "track" /\ req[r].pc /= "track") =>
            /\ req[r].pc = "get3"
            /\ \/ flows[req[r].flowId] = NoStored
               \/ flows[req[r].flowId].expiresAt < now]_vars
  /\ [][\A r \in Slots :
          (req[r].lockOwner /= 0 /\ req'[r].lockOwner = 0) =>
            /\ req[r].pc = "release"
            /\ \/ locks' = locks
               \/ /\ locks[req[r].flowId].owner = req[r].lockOwner
                  /\ locks'[req[r].flowId] = NoLock]_vars

\* A call holding the lock found, on its read under the lock, the PENDING
\* record another call had saved since its first read.
C27_Witness ==
  \E r \in Slots :
    /\ req[r].pc = "getAction" /\ req[r].lockOwner /= 0
    /\ req[r].flow.status = "PENDING" /\ req[r].tr = NoTrack
    /\ trackCalls[req[r].flowId] = 1

\* ---- C28 ----
\* C28, as stated: a step after which a flowId has a record, and before which
\* it had none (or only one whose TTL had elapsed), is the save of an
\* initiation by a call whose lock on the flowId is stored and unexpired.
C28_CreatedUnderLock ==
  [][\A f \in FlowIds :
       ( /\ flows[f] = NoStored \/ flows[f].expiresAt < now
         /\ flows'[f] /= NoStored /\ flows'[f].expiresAt >= now ) =>
         \E r \in Slots :
           /\ req[r].pc = "saveInit" /\ req'[r] /= req[r] /\ req[r].flowId = f
           /\ req[r].lockOwner /= 0
           /\ locks[f].owner = req[r].lockOwner
           /\ locks[f].expiresAt > now]_vars

\* C28, amended: such a step is the save of an initiation by a call that was
\* granted the lock (which may have expired since) after reading no record,
\* and that read no record again under the lock before trackAction; or it is
\* the save of a re-entry that read a PENDING record whose TTL elapsed between
\* that read and the save.
C28_CreatedByInitiationOrResave ==
  /\ [][\A f \in FlowIds :
          ( /\ flows[f] = NoStored \/ flows[f].expiresAt < now
            /\ flows'[f] /= NoStored /\ flows'[f].expiresAt >= now ) =>
            \E r \in Slots :
              /\ req'[r] /= req[r] /\ req[r].flowId = f
              /\ flows'[f].expiresAt = now + ttlSeconds * 1000
              /\ \/ /\ req[r].pc = "saveInit" /\ req[r].lockOwner /= 0
                    /\ req[r].tr \notin {NoTrack, ThrownTrack}
                    /\ req[r].flow = NoFlow
                 \/ /\ req[r].pc \in {"savePending", "saveCompleted"}
                    /\ req[r].flow.status = "PENDING"
                    /\ flows'[f].flow.userId = req[r].flow.userId]_vars
  /\ [][\A r \in Slots :
          LET f == req[r].flowId
              absent == flows[f] = NoStored \/ flows[f].expiresAt < now IN
          /\ (req'[r].pc = "saveInit" /\ req[r].pc /= "saveInit") =>
               req[r].pc = "track"
          /\ (req'[r].pc = "track" /\ req[r].pc /= "track") =>
               (req[r].pc = "get3" /\ absent /\ req[r].lockOwner /= 0)
          /\ (req'[r].pc = "get3" /\ req[r].pc /= "get3") =>
               /\ req[r].pc = "acquire"
               /\ locks[f] = NoLock \/ locks[f].expiresAt <= now
               /\ locks'[f] = [owner |-> req'[r].lockOwner,
                               expiresAt |-> now + LOCK_TTL_MS]
          /\ (req'[r].pc = "acquire" /\ req[r].pc /= "acquire") =>
               (req[r].pc = "get1" /\ absent)]_vars

\* An initiation has just saved the first record of a flowId under its own
\* unexpired lock.
C28_Witness ==
  \E r \in Slots :
    /\ req[r].pc = "release" /\ ~req[r].thrown
    /\ locks[req[r].flowId].owner = req[r].lockOwner
    /\ locks[req[r].flowId].expiresAt > now
    /\ flows[req[r].flowId].flow.status = "PENDING"
    /\ flows[req[r].flowId].expiresAt = now + ttlSeconds * 1000
    /\ trackCalls[req[r].flowId] = 1 /\ calls = 1

\* ---- C29 ----
\* C29, as stated: a step that finds a PENDING record stored and leaves a
\* PENDING record stored leaves its idempotencyKey as it was.
C29_KeyNeverChanges ==
  [][\A f \in FlowIds :
       (flows[f].flow.status = "PENDING" /\ flows'[f].flow.status = "PENDING")
       => flows'[f].flow.idempotencyKey = flows[f].flow.idempotencyKey]_vars

\* C29, amended: a PENDING record stored carries the idempotencyKey and the
\* URL one trackAction call returned together; getAction is made for the
\* record the call read, with that key; a re-entry that leaves the flow
\* pending saves the record it read, unchanged.  The key stored for a flowId
\* changes only when trackAction was called a second time for the flowId,
\* after a lock expired under its holder or the TTL of a record elapsed.
C29_KeyOfTheRecordRead ==
  /\ [](\A f \in FlowIds :
          flows[f].flow.status = "PENDING" =>
            /\ flows[f].flow.idempotencyKey \in 1..trackCalls[f]
            /\ flows[f].flow.redirectUrl = flows[f].flow.idempotencyKey)
  /\ [](\A r \in Slots :
          req[r].pc \in {"getAction", "savePending", "saveCompleted"} =>
            /\ req[r].flow.status = "PENDING"
            /\ req[r].flow.idempotencyKey \in 1..trackCalls[req[r].flowId]
            /\ req[r].flow.redirectUrl = req[r].flow.idempotencyKey)
  /\ [][\A r \in Slots :
          (req[r].pc = "savePending" /\ req'[r] /= req[r] /\ flows' /= flows) =>
            flows'[req[r].flowId] =
              [flow |-> req[r].flow, expiresAt |-> now + ttlSeconds * 1000]]_vars
  /\ [][\A f \in FlowIds :
          ( /\ flows[f].flow.status = "PENDING" /\ flows'[f].flow.status = "PENDING"
            /\ flows'[f].flow.idempotencyKey /= flows[f].flow.idempotencyKey ) =>
            (trackCalls[f] >= 2 /\ restarted[f])]_vars

\* A re-entry for which getAction reported the challenge still open saved the
\* record again, later, with the key of the initiation.
C29_Witness ==
  /\ last.pc = "done" /\ last.ga = "CHALLENGE_REQUIRED"
  /\ last.flow.idempotencyKey = 1
  /\ last.resp = asgardeoIncomplete(1)
  /\ flows[last.flowId].flow = last.flow
  /\ flows[last.flowId].expiresAt > ttlSeconds * 1000
  /\ trackCalls[last.flowId] = 1

\* ---- C30 ----
\* C30: acquireLock and releaseLock, also when they find an expired lock,
\* leave every flow record and what get returns for it as they were; get and
\* save, also when get drops a record whose TTL has elapsed, leave every lock
\* and what acquireLock answers for it as they were; the passing of time
\* changes neither map.
C30_LocksAndFlowsDisjoint ==
  /\ [][( \/ locks' /= locks
          \/ \E r \in Slots : req[r].pc = "release" /\ req'[r].pc = "idle"
          \/ \E r \in Slots : req[r].pc = "idle" /\ req'[r].pc = "release" ) =>
          /\ flows' = flows
          /\ \A f \in FlowIds : storeGet(flows', f, now') = storeGet(flows, f, now)]_vars
  /\ [][( \/ flows' /= flows
          \/ calls' /= calls /\ probe'.op \in {"get", "save"} ) =>
          /\ locks' = locks
          /\ \A f \in FlowIds :
               lockDenies(locks'[f], now') = lockDenies(locks[f], now)]_vars
  /\ [][now' /= now => (flows' = flows /\ locks' = locks)]_vars

\* A lock that had expired under its holder was acquired by another caller
\* while the record saved at the start was still stored, and an expired
\* record was dropped by a get while a lock was held.
C30_Witness ==
  /\ probe.op = "get" /\ probe.result = NoFlow /\ probe.saved /= NoFlow
  /\ flows["f1"] = NoStored
  /\ locks["f1"] /= NoLock /\ locks["f1"].expiresAt > now
  /\ \E r \in Slots : req[r].lockOwner \notin {0, locks["f1"].owner}

C32_OnlyCallbackCompletes ==
  /\ [][\A r \in Slots :
          ( /\ req[r].pc \in {"cbGet1", "cbGet2", "cbGet3"}
            /\ req'[r] /= req[r]
            /\ storeGet(flows, req[r].flowId, now).status = "PENDING"
            /\ ~req'[r].thrown /\ ~last'.thrown ) =>
          /\ flows' = flows /\ trackCalls' = trackCalls /\ cb' = cb
          /\ req'[r].pc \in {"idle", "release"}
          /\ last'.resp = IF canRedirect(last'.ops)
                          THEN asgardeoIncomplete(flows[req[r].flowId].flow.redirectUrl)
                          ELSE asgardeoError("REDIRECT_NOT_ALLOWED")]_vars
  /\ [][\A f \in FlowIds :
          (flows[f].flow.status = "PENDING" /\ flows'[f].flow.status = "COMPLETED")
            => \E c \in CbSlots : cb[c].pc \in {"save", "saveFailure"} /\ cb'[c] /= cb[c]]_vars

\* C32 (amended): the same of the authenticate call whose store.get returns a
\* PENDING record, while a store.get that throws changes nothing either and
\* ends in INTERNAL_ERROR; a PENDING record is replaced by a COMPLETED one by
\* a step of the callback endpoint, or by the save of an initiation after
\* trackAction was called twice for the flowId (two initiations overlapped: a
\* lock had expired under its holder, or a record had been dropped on expiry).
C32_ReadOnlyOnPending ==
  /\ [][\A r \in Slots :
          ( /\ req[r].pc \in {"cbGet1", "cbGet2", "cbGet3"}
            /\ req'[r] /= req[r]
            /\ storeGet(flows, req[r].flowId, now).status = "PENDING" ) =>
          /\ flows' = flows /\ trackCalls' = trackCalls /\ cb' = cb
          /\ req'[r].pc \in {"idle", "release"}
          /\ \/ /\ ~req'[r].thrown /\ ~last'.thrown
                /\ last'.pc = "done"
                /\ last'.flow = flows[req[r].flowId].flow
                /\ canRedirect(last'.ops) =>
                     last'.resp = asgardeoIncomplete(last'.flow.redirectUrl)
                /\ ~canRedirect(last'.ops) =>
                     last'.resp = asgardeoError("REDIRECT_NOT_ALLOWED")
             \/ /\ req[r].lockOwner /= 0 /\ req'[r].thrown /\ last' = last
             \/ /\ req[r].lockOwner = 0 /\ last'.thrown
                /\ last'.resp = asgardeoError("INTERNAL_ERROR")]_vars
  /\ [][\A f \in FlowIds :
          (flows[f].flow.status = "PENDING" /\ flows'[f].flow.status = "COMPLETED") =>
            \/ \E c \in CbSlots : cb[c].pc \in {"save", "saveFailure"} /\ cb'[c] /= cb[c]
            \/ \E r \in Slots : /\ req[r].pc = "cbSave" /\ req'[r] /= req[r]
                                /\ req[r].flowId = f
                                /\ trackCalls[f] >= 2]_vars

\* One clock step after the initiation an authenticate call was answered
\* INCOMPLETE from the PENDING record it read, and the record is stored with
\* the expiry its initiation gave it.
C32_Witness ==
  /\ now = TickMs
  /\ last.pc = "done" /\ last.tr = NoTrack /\ last.flow.status = "PENDING"
  /\ last.resp = asgardeoIncomplete(last.flow.redirectUrl)
  /\ flows[last.flowId] = [flow |-> last.flow, expiresAt |-> ttlSeconds * 1000]

\* ---- C33 ----
\* C33: one call of the client takes at most three fetches of TIMEOUT_MS each
\* and the delays of 150 ms and 300 ms between them, 15450 ms in all, which is
\* less than LOCK_TTL_MS; a lock taken when the call began, or up to
\* LOCK_TTL_MS - 15450 ms earlier, still denies every other caller at every
\* moment of the call.
C33_LockOutlivesInitiate ==
  LET longest == (MAX_RETRIES + 1) * TIMEOUT_MS + retryDelay(0) + retryDelay(1) IN
  /\ longest = 15450
  /\ longest < LOCK_TTL_MS
  /\ http.elapsed <= longest
  /\ \A early \in {0, LOCK_TTL_MS - longest - 1} :
       lockDenies([owner |-> 1, expiresAt |-> LOCK_TTL_MS], early + http.elapsed)

\* A call that took the longest time: three fetches cut off by the timeout.
C33_Witness ==
  /\ http.pc = "thrown" /\ http.elapsed = 15450
  /\ \A i \in 1..3 : http.log[i].kind = "AbortError"

\* ---- C34 ----
\* C34: a stored lock stops denying at the latest LOCK_TTL_MS from now,
\* whether or not its holder released it; an acquireLock made once the TTL of
\* the stored lock has elapsed is granted (unless the store call fails), also
\* while the earlier holder still has its token; and FLOW_LOCKED is answered
\* only by a call whose acquireLock found an unexpired lock.
C34_ExpiredLockIsGranted ==
  /\ [](\A f \in FlowIds :
          locks[f] /= NoLock =>
            /\ locks[f].expiresAt <= now + LOCK_TTL_MS
            /\ ~lockDenies(locks[f], locks[f].expiresAt))
  /\ [][\A r \in Slots :
          LET f == req[r].flowId IN
          (req[r].pc = "acquire" /\ req'[r] /= req[r]) =>
            /\ req'[r].pc = "get2" =>
                 (locks[f] /= NoLock /\ locks[f].expiresAt > now /\ locks' = locks)
            /\ (locks[f] = NoLock \/ locks[f].expiresAt <= now) =>
                 \/ /\ req'[r].pc = "get3"
                    /\ req'[r].lockOwner /= 0
                    /\ locks'[f] = [owner |-> req'[r].lockOwner,
                                    expiresAt |-> now + LOCK_TTL_MS]
                 \/ /\ req'[r].pc = "idle"
                    /\ last'.thrown /\ locks' = locks]_vars
  /\ [][(last' /= last /\ last'.resp = asgardeoError("FLOW_LOCKED"))
          => last'.denied]_vars

\* A call was answered FLOW_LOCKED while another held the lock; the holder
\* went no further, and after the lock's TTL a later call was granted the
\* lock while the earlier holder still has its token.
C34_Witness ==
  /\ last.resp = asgardeoError("FLOW_LOCKED")
  /\ \E r, r2 \in Slots :
       /\ req[r].pc = "get3" /\ req[r].lockOwner = locks["f1"].owner
       /\ req[r2].pc = "track" /\ req[r2].lockOwner \notin {0, req[r].lockOwner}

\* ---- C35 ----
\* C35: the user identifier an initiation uses is the trimmed value of the
\* first of user.id, user.username, user.email, user.claims.sub and
\* user.claims.user_id that is a string with something left after trimming; it
\* is the userId of the record the initiation saves.  When there is none (or
\* no event.user), the call that found no record under the lock is answered
\* MISSING_USER at once: trackAction is not called, no record is stored, and
\* the call goes on to releaseLock with its token.
C35_FirstNonEmptyUserId ==
  /\ [](LET cands == <<user.id, user.username, user.email, user.sub, user.user_id>>
            filled(i) == cands[i] \notin {Undefined, NonString, "", " "}
            none == ~user.present \/ \A i \in 1..5 : ~filled(i)
            first == CHOOSE i \in 1..5 : filled(i) /\ \A j \in 1..(i - 1) : ~filled(j)
        IN
        IF none THEN resolveUserId(user) = NoUser
        ELSE /\ resolveUserId(user) = trim(cands[first])
             /\ resolveUserId(user) \in {"id", "name", "mail", "sub", "uid"})
  /\ [][LET cands == <<user.id, user.username, user.email, user.sub, user.user_id>>
            filled(i) == cands[i] \notin {Undefined, NonString, "", " "}
            none == ~user.present \/ \A i \in 1..5 : ~filled(i)
            first == CHOOSE i \in 1..5 : filled(i) /\ \A j \in 1..(i - 1) : ~filled(j)
        IN
        \A r \in Slots :
          ( /\ req[r].pc = "get3" /\ req'[r] /= req[r] /\ ~req'[r].thrown
            /\ storeGet(flows, req[r].flowId, now) = NoFlow ) =>
          IF none
          THEN /\ last'.pc = "done"
               /\ last'.resp = asgardeoError("MISSING_USER")
               /\ trackCalls' = trackCalls /\ flows' = flows
               /\ req'[r].pc = "release"
               /\ req'[r].lockOwner = req[r].lockOwner /\ req[r].lockOwner /= 0
          ELSE /\ req'[r].pc = "track"
               /\ req'[r].userId = trim(cands[first])
               /\ last' = last]_vars
  /\ [](LET cands == <<user.id, user.username, user.email, user.sub, user.user_id>>
            filled(i) == cands[i] \notin {Undefined, NonString, "", " "}
            none == ~user.present \/ \A i \in 1..5 : ~filled(i)
            first == CHOOSE i \in 1..5 : filled(i) /\ \A j \in 1..(i - 1) : ~filled(j)
        IN
        \A f \in FlowIds :
          /\ flows[f] /= NoStored => (~none /\ flows[f].flow.userId = trim(cands[first]))
          /\ trackCalls[f] > 0 => ~none)

\* A request whose user.id is blank, whose claims.sub is no string and whose
\* other fields are absent or empty was answered MISSING_USER, nothing was
\* stored, and the lock it held has been released.
C35_Witness ==
  /\ user.present /\ user.id = " " /\ user.sub = NonString /\ user.username = ""
  /\ last.pc = "done" /\ last.resp = asgardeoError("MISSING_USER")
  /\ \A r \in Slots : req[r].pc = "idle"
  /\ locks["f1"] = NoLock /\ flows["f1"] = NoStored /\ trackCalls["f1"] = 0

C37_ErrorSavesNothing ==
  /\ [][\A r \in Slots :
          LET f == req[r].flowId IN
          ( /\ req[r].pc \in {"get3", "track"} /\ req'[r] /= req[r]
            /\ req'[r].pc \in {"idle", "release"} /\ ~req'[r].thrown
            /\ last'.resp.actionStatus = "ERROR" /\ last'.flow = NoFlow ) =>
          /\ flows'[f] \in {flows[f], NoStored}
          /\ last'.resp.detail \in
               {"MISSING_USER", "AUTHSIGNAL_ERROR", "REDIRECT_NOT_ALLOWED"}
          /\ last'.resp.detail = "MISSING_USER" <=> last'.tr = NoTrack
          /\ trackCalls'[f] = (IF last'.tr = NoTrack THEN 0 ELSE 1)
               => flows'[f] = NoStored]_vars
  /\ [][\A r \in Slots :
          ( /\ req[r].pc \in {"get3", "track", "saveInit"} /\ req'[r] /= req[r]
            /\ req'[r].thrown ) =>
          /\ flows' = flows
          /\ req'[r].pc = "release"]_vars
  /\ [][\A r \in Slots :
          LET f == req[r].flowId IN
          ( /\ req[r].pc = "release" /\ req[r].thrown /\ req'[r] /= req[r]
            /\ req[r].flow = NoFlow ) =>
          /\ last'.resp = asgardeoError("INTERNAL_ERROR")
          /\ flows' = flows
          /\ trackCalls[f] = (IF req[r].tr = NoTrack THEN 0 ELSE 1)
               => flows[f] = NoStored]_vars
  /\ [][\A r \in Slots :
          /\ ( /\ req[r].pc = "get1" /\ req'[r] /= req[r]
               /\ storeGet(flows, req[r].flowId, now) = NoFlow
               /\ req'[r].pc /= "idle" ) => req'[r].pc = "acquire"
          /\ (req[r].pc = "track" /\ req'[r] /= req[r]) =>
               trackCalls'[req[r].flowId] = trackCalls[req[r].flowId] + 1]_vars

\* A call whose trackAction answered a pending state without a URL or without
\* an idempotency key was answered AUTHSIGNAL_ERROR with nothing stored, and
\* the call that arrived after that answer has called trackAction again.
C37_Witness ==
  /\ last.pc = "done" /\ last.resp = asgardeoError("AUTHSIGNAL_ERROR")
  /\ last.tr.state = "CHALLENGE_REQUIRED"
  /\ flows["f1"] = NoStored /\ trackCalls["f1"] = 2
  /\ \E r \in Slots : req[r].pc = "saveInit" /\ req[r].prior.any

\* ---- C38 ----
\* C38: no step of a callback invocation changes the outcome or the
\* failureReason of a COMPLETED record that is stored, and a callback that
\* reads a COMPLETED record is answered at that step with a redirect to the
\* record's resume URL, the store left as it is and validateChallenge not
\* called.
C38_CompletedSticks ==
  /\ [][\A f \in FlowIds :
          (flows[f].flow.status = "COMPLETED" /\ cb' /= cb /\ flows'[f] /= NoStored) =>
            /\ flows'[f].flow.status = "COMPLETED"
            /\ flows'[f].flow.outcome = flows[f].flow.outcome
            /\ flows'[f].flow.failureReason = flows[f].flow.failureReason]_vars
  /\ [][\A c \in CbSlots :
          ( /\ cb[c].pc = "get" /\ cb'[c] /= cb[c]
            /\ storeGet(flows, cb[c].flowId, now).status = "COMPLETED"
            /\ ~cb'[CbLast].caught ) =>
          /\ cb'[CbLast].resp = callbackRedirect(flows[cb[c].flowId].flow.resumeUrl)
          /\ cb'[CbLast].validates = 0
          /\ flows' = flows]_vars

\* ---- C39 ----
\* C39: when a callback that read a PENDING record and carries a token
\* answers, the record stored for its flowId is COMPLETED, with outcome SUCCESS
\* exactly when the validation result has isValid true or a state of
\* SUCCESS_STATES, and FAILED otherwise, the reason being authsignal_<state in
\* lower case> for a state of FAILED_STATES and authsignal_validation_failed
\* for anything else.
C39_TokenCallbackCompletes ==
  [][\A c \in CbSlots :
       LET k == cb[c]
           n == toUpperCase(k.result.state)
           success == k.result.isValid = "true" \/ n \in SUCCESS_STATES
           stored == flows'[k.flowId].flow
       IN ( /\ k.pc \in {"save", "saveFailure"} /\ k.token /= ""
            /\ k.flow.status = "PENDING" /\ cb'[c].pc = "idle" ) =>
          /\ stored.status = "COMPLETED"
          /\ stored.outcome = (IF success THEN "SUCCESS" ELSE "FAILED")
          /\ stored.failureReason =
               (IF success THEN ""
                ELSE IF n \in FAILED_STATES THEN "authsignal_" \o toLowerCase(n)
                ELSE "authsignal_validation_failed")]_vars

\* C39 (amended): a callback that read a PENDING record and carries a token
\* stores, when validateChallenge answered and the save succeeds, a COMPLETED
\* record with the outcome and reason of the rule above and answers 302; when
\* validateChallenge or that save throws it stores COMPLETED/FAILED with
\* authsignal_validate_error and answers 302, whatever the validation said;
\* when that second save throws too it answers 500 and stores nothing.
C39_TokenCallbackOutcome ==
  /\ [][\A c \in CbSlots :
          LET k == cb[c]
              n == toUpperCase(k.result.state)
              success == k.result.isValid = "true" \/ n \in SUCCESS_STATES
              stored == flows'[k.flowId].flow
          IN ( /\ k.pc = "save" /\ k.token /= "" /\ k.flow.status = "PENDING"
               /\ cb'[c] /= k ) =>
             \/ /\ cb'[c].pc = "idle"
                /\ k.result \in ValidateResults
                /\ cb'[CbLast].resp = callbackRedirect(k.flow.resumeUrl)
                /\ stored.status = "COMPLETED"
                /\ stored.userId = k.flow.userId
                /\ stored.resumeUrl = k.flow.resumeUrl
                /\ stored.outcome = (IF success THEN "SUCCESS" ELSE "FAILED")
                /\ stored.failureReason =
                     (IF success THEN ""
                      ELSE IF n \in FAILED_STATES
                        THEN "authsignal_" \o toLowerCase(n)
                      ELSE "authsignal_validation_failed")
             \/ /\ cb'[c].pc = "saveFailure"
                /\ flows' = flows]_vars
  /\ [][\A c \in CbSlots :
          LET k == cb[c]  stored == flows'[k.flowId].flow IN
          ( /\ k.pc = "saveFailure" /\ k.token /= "" /\ cb'[c] /= k ) =>
            /\ cb'[c].pc = "idle"
            /\ \/ /\ cb'[CbLast].resp = callbackRedirect(k.flow.resumeUrl)
                  /\ stored.status = "COMPLETED"
                  /\ stored.outcome = "FAILED"
                  /\ stored.failureReason = "authsignal_validate_error"
               \/ /\ cb'[CbLast].resp = callbackPage(500, "Authentication error")
                  /\ flows' = flows]_vars
  /\ [][\A c \in CbSlots :
          (cb[c].pc = "validate" /\ cb'[c] /= cb[c]) =>
            /\ cb[c].token /= "" /\ cb[c].flow.status = "PENDING"
            /\ flows' = flows
            /\ cb'[c].pc = (IF cb'[c].result \in ValidateResults THEN "save"
                            ELSE "saveFailure")]_vars

\* A callback whose token validated as isValid true with the state BLOCK has
\* stored COMPLETED/SUCCESS and answered 302.
C39_Witness ==
  /\ cb[CbLast].pc = "done"
  /\ cb[CbLast].token = "tok"
  /\ cb[CbLast].result = [state |-> "BLOCK", isValid |-> "true"]
  /\ cb[CbLast].resp.http = 302
  /\ ~cb[CbLast].caught
  /\ flows["f1"].flow.status = "COMPLETED"
  /\ flows["f1"].flow.outcome = "SUCCESS"

\* ---- C40 ----
\* C40: if from some point on every getAction call answers a state of
\* SUCCESS_STATES or FAILED_STATES, no store call throws, and no PENDING record
\* is left to expire, then whenever a PENDING record is stored, eventually an
\* authenticate call has answered SUCCESS or FAILED with the stored record
\* COMPLETED.
C40_PendingIsResolved ==
  ( /\ <>[][\A r \in Slots :
               (req[r].pc = "getAction" /\ req'[r] /= req[r]) =>
                 toUpperCase(req'[r].ga) \in SUCCESS_STATES \cup FAILED_STATES]_vars
    /\ <>[][\A r \in Slots :
               /\ req'[r].thrown => req[r].thrown
               /\ ~( /\ req[r].pc \notin {"idle", "release"}
                     /\ req'[r].pc = "idle" /\ last'.thrown )
               /\ ~(req[r].pc = "saveCompleted" /\ req'[r].pc = "savePending")]_vars
    /\ [](\A f \in FlowIds :
            flows[f].flow.status = "PENDING" => ~isExpired(flows[f], now)) )
  => \A f \in FlowIds :
       (storeGet(flows, f, now).status = "PENDING")
         ~> ( /\ last.pc = "done"
              /\ last.flowId = f
              /\ last.resp.actionStatus \in {"SUCCESS", "FAILED"}
              /\ flows[f].flow.status = "COMPLETED" )

\* A poll that arrived after the first calls, read the PENDING record and was
\* told CHALLENGE_SUCCEEDED by getAction has answered SUCCESS, with the record
\* COMPLETED.
C40_Witness ==
  /\ calls = LiveCalls
  /\ last.pc = "done"
  /\ last.prior.any
  /\ last.flow.status = "PENDING"
  /\ last.ga = "CHALLENGE_SUCCEEDED"
  /\ last.resp = asgardeoSuccess
  /\ flows["f1"].flow.status = "COMPLETED"
  /\ flows["f1"].flow.outcome = "SUCCESS"

====
